---- MODULE Spec2Model ----
(***************************************************************************)
(* Music bot: the search cascade, the Redis-backed caches (delivery        *)
(* handles, query results, search sessions) and the rate limiter.          *)
(*                                                                         *)
(* Time is counted in whole seconds, the unit of SETEX / EXPIRE / TTL.     *)
(* The Redis store is one map from string keys to a value and a remaining  *)
(* time to live; a key whose time to live has run out is absent.           *)
(***************************************************************************)
EXTENDS Integers, Sequences, FiniteSets, TLC

(* ---------------------------------------------------------------------- *)
(* Settings (bot/config.py)                                                *)
(* ---------------------------------------------------------------------- *)
MAX_DURATION == 600
CACHE_FILE_ID_TTL == 2592000
SEARCH_SESSION_TTL == 300
RATE_LIMIT_REGULAR == 10
RATE_LIMIT_PREMIUM == 999999
COOLDOWN_REGULAR == 5
COOLDOWN_PREMIUM == 1
QUERY_CACHE_TTL == 120
LIMIT_WINDOW == 3600

(* Optional values: Python's None against a present value. *)
None == [some |-> FALSE]
Some(v) == [some |-> TRUE, v |-> v]

(* ---------------------------------------------------------------------- *)
(* The Redis store                                                         *)
(* ---------------------------------------------------------------------- *)
NoExpiry == -1
EmptyStore == [k \in {} |-> [val |-> "", ttl |-> NoExpiry]]

VARIABLES
    kv,         \* Redis: key -> [val, ttl]; ttl = NoExpiry for a key without expiry
    fidRet,     \* what the last get_file_id returned, and for which (id, bitrate)
    fidLast,    \* per (id, bitrate): the handle last stored and the seconds since then
    sessLast,   \* per session id: the list last stored and the seconds since then
    sel,        \* the last handle_track_select: its input and how it ended
    rlRet,      \* the last check_rate_limit: its input and what it returned
    rlMon,      \* observer of the rate limiter (call scenario and hourly window)
    rl,         \* concurrent check_rate_limit calls: position and locals of each
    req,        \* search requests (_do_search): position and locals of each
    qLast,      \* per query-cache key: the list last written and the seconds since then
    now,        \* seconds since the start (stamps the stages of the searches)
    ticks,      \* number of clock advances so far (bounded)
    adminIds,   \* settings.ADMIN_IDS, which get_or_create_user extends
    dl,         \* deliveries of a selected candidate: position and locals of each
    tracks,     \* the tracks table: source_id -> the row's columns
    up,         \* upsert_track calls: position, arguments and what each read and wrote
    disk,       \* the files in DOWNLOAD_DIR, each a <<stem, suffix>>
    mw,         \* middleware calls: position, input and what became of each event
    users,      \* the users table: id -> [is_premium, premium_until]
    payments,   \* the payments table: the rows added, in order
    pay,        \* handle_successful_payment calls: position and locals of each
    keyLog,     \* per store key: the (namespace, logical key) pairs it was accessed for
    load,       \* _load_channel_tracks: position, counters and locals of the loop
    acct        \* per user: the quality column and what the user's handlers were given

fidVars == <<fidRet, fidLast>>
sessVars == <<sessLast, sel>>
rateVars == <<rlRet, rlMon>>
concVars == <<rl>>
searchVars == <<req, qLast, now, adminIds>>
deliverVars == <<dl, tracks, disk>>
mwVars == <<mw>>
premVars == <<users, payments, pay>>
upsertVars == <<up>>
keyVars == <<keyLog>>
loadVars == <<load>>
acctVars == <<acct>>

vars == <<kv, fidRet, fidLast, sessLast, sel, rlRet, rlMon, rl, req, qLast, now, ticks,
          adminIds, dl, tracks, disk, mw, users, payments, pay, up, keyLog, load,
          acct>>

(* what an action of one component leaves alone *)
exceptFid == <<sessVars, rateVars, concVars, searchVars, deliverVars, mwVars, premVars,
                 upsertVars, keyVars, loadVars, acctVars, ticks>>
exceptSess == <<fidVars, rateVars, concVars, searchVars, deliverVars, mwVars, premVars,
                 upsertVars, keyVars, loadVars, acctVars, ticks>>
exceptRate == <<fidVars, sessVars, concVars, searchVars, deliverVars, mwVars, premVars,
                 upsertVars, keyVars, loadVars, acctVars>>
exceptConc == <<fidVars, sessVars, rateVars, searchVars, deliverVars, mwVars, premVars,
                 upsertVars, keyVars, loadVars, acctVars, ticks>>
exceptSearch == <<fidVars, sessVars, rateVars, concVars, deliverVars, mwVars, premVars,
                 upsertVars, keyVars, loadVars, acctVars, ticks>>
searchRest == <<fidVars, rateVars, concVars, deliverVars, mwVars, premVars, upsertVars,
                 keyVars, loadVars, acctVars, ticks>>
exceptDeliver == <<fidVars, sessVars, rateVars, concVars, searchVars, mwVars, premVars,
                 upsertVars, keyVars, loadVars, acctVars, ticks>>
exceptPrem == <<fidVars, sessVars, rateVars, concVars, searchVars, deliverVars, mwVars,
                 upsertVars, keyVars, loadVars, acctVars, ticks>>
exceptUpsert == <<kv, dl, disk, fidVars, sessVars, rateVars, concVars, searchVars, mwVars,
                 premVars, keyVars, loadVars, acctVars, ticks>>
exceptKeys == <<fidVars, sessVars, rateVars, concVars, searchVars, deliverVars, mwVars,
                 premVars, upsertVars, loadVars, acctVars, ticks>>
exceptMw == <<fidVars, sessVars, rateVars, concVars, searchVars, deliverVars, premVars,
                 upsertVars, keyVars, loadVars, acctVars>>

Min(a, b) == IF a < b THEN a ELSE b
Max(a, b) == IF a > b THEN a ELSE b

(* redis.get *)
RedisGet(store, k) == IF k \in DOMAIN store THEN Some(store[k].val) ELSE None

(* redis.setex *)
RedisSetex(store, k, ttl, v) == (k :> [val |-> v, ttl |-> ttl]) @@ store

(* the store d seconds later: keys whose time to live has run out are gone *)
Expire(store, d) ==
    LET keep == {k \in DOMAIN store : store[k].ttl = NoExpiry \/ store[k].ttl > d}
    IN  [k \in keep |-> IF store[k].ttl = NoExpiry THEN store[k]
                        ELSE [store[k] EXCEPT !.ttl = @ - d]]

(* ---------------------------------------------------------------------- *)
(* Delivery (file id) cache                                                *)
(* ---------------------------------------------------------------------- *)
SourceIds == {"yt1", "yt1:192"}
Bitrates == {128, 192, 320}
FileIds == {"FID_A", "FID_B"}
(* the (track id, bitrate) pairs exercised: one id at every bitrate, and an *)
(* id that ends like another id's key                                       *)
FidPairs == ({"yt1"} \X Bitrates) \cup {<<"yt1:192", 320>>}

(* a key that leaves the bitrate out *)
FidKey_NoBitrate(source_id, bitrate) == "fid:" \o source_id

FidKey(source_id, bitrate) == "fid:" \o source_id \o ":" \o ToString(bitrate)

get_file_id(store, source_id, bitrate) == RedisGet(store, FidKey(source_id, bitrate))

set_file_id(store, source_id, file_id, bitrate) ==
    RedisSetex(store, FidKey(source_id, bitrate), CACHE_FILE_ID_TTL, file_id)

GetFileId(source_id, bitrate) ==
    /\ fidRet' = [id |-> source_id, br |-> bitrate,
                  val |-> get_file_id(kv, source_id, bitrate)]
    /\ UNCHANGED <<kv, fidLast, exceptFid>>

SetFileId(source_id, file_id, bitrate) ==
    /\ kv' = set_file_id(kv, source_id, file_id, bitrate)
    /\ fidLast' = [fidLast EXCEPT ![<<source_id, bitrate>>] = [set |-> TRUE, h |-> file_id, age |-> 0]]
    /\ UNCHANGED <<fidRet, exceptFid>>

(* ---------------------------------------------------------------------- *)
(* JSON text of a result list (json.dumps / json.loads), as tokens         *)
(* ---------------------------------------------------------------------- *)
(* A candidate is the dict built by the providers; the fields the cache    *)
(* and the handlers read are kept.  file_id "" stands for None / no key.   *)
Cand(video_id, duration, source, file_id) ==
    [video_id |-> video_id, duration |-> duration, source |-> source, file_id |-> file_id]

RECURSIVE JsonItems(_)
JsonItems(results) ==
    IF results = <<>> THEN <<>>
    ELSE LET c == Head(results)
         IN  <<"{", c.video_id, c.duration, c.source, c.file_id, "}">>
               \o JsonItems(Tail(results))

JsonDumps(results) == <<"[">> \o JsonItems(results) \o <<"]">>

JsonLoads(data) ==
    LET body == SubSeq(data, 2, Len(data) - 1)
    IN  [i \in 1..(Len(body) \div 6) |->
            Cand(body[6 * (i - 1) + 2], body[6 * (i - 1) + 3],
                 body[6 * (i - 1) + 4], body[6 * (i - 1) + 5])]

(* ---------------------------------------------------------------------- *)
(* Search sessions                                                         *)
(* ---------------------------------------------------------------------- *)
SessionIds == {"s1", "s2"}

SearchKey(session_id) == "search:" \o session_id

(* a store that sets no expiry *)
store_search_NoExpiry(store, session_id, results) ==
    RedisSetex(store, SearchKey(session_id), NoExpiry, JsonDumps(results))

store_search(store, session_id, results) ==
    RedisSetex(store, SearchKey(session_id), SEARCH_SESSION_TTL, JsonDumps(results))

(* json.loads(data) if data else None *)
get_search(store, session_id) ==
    LET data == RedisGet(store, SearchKey(session_id))
    IN  IF data.some /\ data.v # <<>> THEN Some(JsonLoads(data.v)) ELSE None

(* the lists the session store is exercised with *)
MaxSessLen == 2
SessCand(i) == Cand("v" \o ToString(i), 200 + i, "youtube", "")
LocalCand == Cand("tg1", 180, "channel", "FID_A")
SessLists == {[i \in 1..k |-> SessCand(i)] : k \in 1..MaxSessLen} \cup {<<LocalCand>>}
SelIndexes == (0 - MaxSessLen - 1)..MaxSessLen
NoCand == Cand("", 0, "", "")

StoreSearch(session_id, results) ==
    /\ kv' = store_search(kv, session_id, results)
    /\ sessLast' = [sessLast EXCEPT ![session_id] = [set |-> TRUE, res |-> results, age |-> 0]]
    /\ UNCHANGED <<sel, exceptSess>>

(* results[i] of Python: a negative i counts from the end, an i outside *)
(* -len..len-1 raises IndexError                                         *)
PyIndexOk(list, i) == i < Len(list) /\ i >= 0 - Len(list)
PyIndex(list, i) == IF i >= 0 THEN list[i + 1] ELSE list[Len(list) + i + 1]

(* handle_track_select up to the choice of the track: "ignored" for a     *)
(* banned user, "expired" when the session-expired text is answered,      *)
(* "resolved" when track_info is taken and delivery goes on, "error" when *)
(* the subscript raises and the exception leaves the handler              *)
handle_track_select(store, sid, i, is_banned) ==
    LET results == get_search(store, sid)
    IN  IF is_banned THEN [outcome |-> "ignored", track |-> NoCand]
        ELSE IF ~results.some \/ results.v = <<>> \/ i >= Len(results.v)
             THEN [outcome |-> "expired", track |-> NoCand]
        ELSE IF ~PyIndexOk(results.v, i) THEN [outcome |-> "error", track |-> NoCand]
        ELSE [outcome |-> "resolved", track |-> PyIndex(results.v, i)]

HandleTrackSelect(sid, i, is_banned) ==
    /\ sel' = [sid |-> sid, i |-> i, banned |-> is_banned,
               age |-> IF sessLast[sid].set THEN sessLast[sid].age ELSE -1]
                 @@ handle_track_select(kv, sid, i, is_banned)
    /\ UNCHANGED <<kv, sessLast, exceptSess>>

(* ---------------------------------------------------------------------- *)
(* Rate limiter                                                            *)
(* ---------------------------------------------------------------------- *)
RateUsers == {111}

(* a cooldown key in the limit counter's namespace *)
CooldownKey_AsLimit(user_id) == "limit:" \o ToString(user_id)

CooldownKey(user_id) == "cd:" \o ToString(user_id)
LimitKey(user_id) == "limit:" \o ToString(user_id)

(* redis.ttl: -2 for a missing key, -1 for a key without expiry *)
RedisTtl(store, k) == IF k \in DOMAIN store THEN store[k].ttl ELSE -2

(* redis.incr: a missing key counts from 0 and gets no expiry *)
RedisIncr(store, k) ==
    IF k \in DOMAIN store THEN [store EXCEPT ![k].val = @ + 1]
    ELSE (k :> [val |-> 1, ttl |-> NoExpiry]) @@ store

(* redis.expire *)
RedisExpire(store, k, ttl) ==
    IF k \in DOMAIN store THEN [store EXCEPT ![k].ttl = ttl] ELSE store

(* a ceiling that is reached one request early (count >= limit) *)
MaxLimit_OffByOne(is_premium) ==
    (IF is_premium THEN RATE_LIMIT_PREMIUM ELSE RATE_LIMIT_REGULAR) - 1

(* the two tiers' cooldowns exchanged *)
Cooldown_Swapped(is_premium) == IF is_premium THEN COOLDOWN_REGULAR ELSE COOLDOWN_PREMIUM

MaxLimit(is_premium) == IF is_premium THEN RATE_LIMIT_PREMIUM ELSE RATE_LIMIT_REGULAR
Cooldown(is_premium) == IF is_premium THEN COOLDOWN_PREMIUM ELSE COOLDOWN_REGULAR

(* a limiter that counts the calls it denies for the cooldown *)
check_rate_limit_CountsDenied(store, user_id, is_premium) ==
    LET cooldown_key == CooldownKey(user_id)
        limit_key == LimitKey(user_id)
        s1 == RedisIncr(store, limit_key)
        count == s1[limit_key].val
        s2 == IF count = 1 THEN RedisExpire(s1, limit_key, LIMIT_WINDOW) ELSE s1
    IN  IF cooldown_key \in DOMAIN store
        THEN [store |-> s2, allowed |-> FALSE,
              hint |-> Max(RedisTtl(store, cooldown_key), 1)]
        ELSE IF count > MaxLimit(is_premium)
             THEN [store |-> s2, allowed |-> FALSE, hint |-> 0]
             ELSE [store |-> RedisSetex(s2, cooldown_key, Cooldown(is_premium), "1"),
                   allowed |-> TRUE, hint |-> 0]

(* check_rate_limit run without interruption: the store afterwards and the *)
(* returned (allowed, cooldown_seconds)                                    *)
check_rate_limit(store, user_id, is_premium) ==
    LET cooldown_key == CooldownKey(user_id)
        limit_key == LimitKey(user_id)
    IN  IF cooldown_key \in DOMAIN store
        THEN [store |-> store, allowed |-> FALSE,
              hint |-> Max(RedisTtl(store, cooldown_key), 1)]
        ELSE LET s1 == RedisIncr(store, limit_key)
                 count == s1[limit_key].val
                 s2 == IF count = 1 THEN RedisExpire(s1, limit_key, LIMIT_WINDOW) ELSE s1
             IN  IF count > MaxLimit(is_premium)
                 THEN [store |-> s2, allowed |-> FALSE, hint |-> 0]
                 ELSE [store |-> RedisSetex(s2, cooldown_key, Cooldown(is_premium), "1"),
                       allowed |-> TRUE, hint |-> 0]

(* bounds of the rate-limiter runs *)
RateMaxTicks == 11
RateMaxCount == 12

(* The observer follows (1) the scenario "first call with no state, second  *)
(* call inside the cooldown, third call exactly hint seconds later" of a    *)
(* standard user and (2) the calls of the current hourly window, i.e. of    *)
(* the lifetime of the limit key.                                           *)
RateObserve(m, store, user_id, is_premium, r) ==
    LET counted == CooldownKey(user_id) \notin DOMAIN store
        newWindow == LimitKey(user_id) \notin DOMAIN store
        scen == IF counted /\ newWindow /\ ~is_premium THEN "first"
                ELSE IF m.scen = "first" /\ ~is_premium /\ m.since < COOLDOWN_REGULAR
                     THEN "second"
                ELSE IF m.scen = "second" /\ ~is_premium /\ m.wait = 0 THEN "third"
                ELSE "off"
        adm == IF r.allowed /\ ~is_premium THEN 1 ELSE 0
    IN  [scen |-> scen,
         since |-> IF scen = "first" THEN 0 ELSE m.since,
         wait |-> IF scen = "second" THEN r.hint ELSE 0,
         counted |-> counted,
         winCalls |-> IF ~counted THEN m.winCalls
                      ELSE IF newWindow THEN 1 ELSE m.winCalls + 1,
         winAdmitted |-> IF ~counted THEN m.winAdmitted
                         ELSE IF newWindow THEN adm ELSE m.winAdmitted + adm,
         winPure |-> IF ~counted THEN m.winPure
                     ELSE IF newWindow THEN ~is_premium ELSE m.winPure /\ ~is_premium]

RateObserveTick(m, d) ==
    [m EXCEPT !.since = Min(@ + d, COOLDOWN_REGULAR),
              !.wait = IF m.scen = "second" /\ @ >= d THEN @ - d ELSE 0,
              !.scen = IF m.scen = "second" /\ m.wait < d THEN "off" ELSE @]

CheckRateLimit(user_id, is_premium) ==
    /\ LimitKey(user_id) \in DOMAIN kv => kv[LimitKey(user_id)].val < RateMaxCount
    /\ LET r == check_rate_limit(kv, user_id, is_premium)
       IN  /\ kv' = r.store
           /\ rlRet' = [called |-> TRUE, user |-> user_id, prem |-> is_premium,
                        allowed |-> r.allowed, hint |-> r.hint]
           /\ rlMon' = RateObserve(rlMon, kv, user_id, is_premium, r)
    /\ UNCHANGED <<ticks, exceptRate>>

(* ---------------------------------------------------------------------- *)
(* check_rate_limit as it runs: one step per Redis round trip (await),     *)
(* calls of several requests of the same user interleaving between them    *)
(* ---------------------------------------------------------------------- *)
NumProcs == 2
Procs == 1..NumProcs
ConcUser == 111

RlReturn(p, allowed, hint) ==
    rl' = [rl EXCEPT ![p].pc = "done", ![p].allowed = allowed, ![p].hint = hint]

(* the call is made *)
RlCall(p, is_premium) ==
    /\ rl[p].pc = "idle"
    /\ rl' = [rl EXCEPT ![p].pc = "exists", ![p].prem = is_premium]
    /\ UNCHANGED <<kv, exceptConc>>

(* await redis.exists(cooldown_key) *)
RlExists(p) ==
    /\ rl[p].pc = "exists"
    /\ rl' = [rl EXCEPT ![p].pc = IF CooldownKey(ConcUser) \in DOMAIN kv
                                  THEN "ttl" ELSE "incr"]
    /\ UNCHANGED <<kv, exceptConc>>

(* await redis.ttl(cooldown_key); return False, max(ttl, 1) *)
RlTtl(p) ==
    /\ rl[p].pc = "ttl"
    /\ RlReturn(p, FALSE, Max(RedisTtl(kv, CooldownKey(ConcUser)), 1))
    /\ UNCHANGED <<kv, exceptConc>>

(* the comparison with the ceiling, which follows incr / expire unsuspended *)
RlAfterCount(p, count) ==
    IF count > MaxLimit(rl[p].prem)
    THEN RlReturn(p, FALSE, 0)
    ELSE rl' = [rl EXCEPT ![p].pc = "setex", ![p].count = count]

(* await redis.incr(limit_key) *)
RlIncr(p) ==
    /\ rl[p].pc = "incr"
    /\ kv' = RedisIncr(kv, LimitKey(ConcUser))
    /\ LET count == kv'[LimitKey(ConcUser)].val
       IN  IF count = 1
           THEN rl' = [rl EXCEPT ![p].pc = "expire", ![p].count = count]
           ELSE RlAfterCount(p, count)
    /\ UNCHANGED exceptConc

(* await redis.expire(limit_key, 3600) *)
RlExpire(p) ==
    /\ rl[p].pc = "expire"
    /\ kv' = RedisExpire(kv, LimitKey(ConcUser), LIMIT_WINDOW)
    /\ RlAfterCount(p, rl[p].count)
    /\ UNCHANGED exceptConc

(* await redis.setex(cooldown_key, cooldown, "1"); return True, 0 *)
RlSetex(p) ==
    /\ rl[p].pc = "setex"
    /\ kv' = RedisSetex(kv, CooldownKey(ConcUser), Cooldown(rl[p].prem), "1")
    /\ RlReturn(p, TRUE, 0)
    /\ UNCHANGED exceptConc

(* ---------------------------------------------------------------------- *)
(* Query-result cache                                                      *)
(* ---------------------------------------------------------------------- *)
(* A query is a sequence of characters (a Spotify link is one token).      *)
Q_Bo == <<"B", "o">>
Q_bo_ == <<"b", "o", " ">>
SpotifyUrl == "https://open.spotify.com/track/4x"
Q_Spotify == <<SpotifyUrl>>
Queries == {Q_Bo, Q_bo_, Q_Spotify}

(* str.lower on the characters in use *)
LowerChar(c) == IF c = "B" THEN "b" ELSE IF c = "O" THEN "o" ELSE c
PyLower(q) == [i \in 1..Len(q) |-> LowerChar(q[i])]

(* str.strip *)
RECURSIVE PyLStrip(_)
PyLStrip(q) == IF q # <<>> /\ Head(q) = " " THEN PyLStrip(Tail(q)) ELSE q
RECURSIVE PyRStrip(_)
PyRStrip(q) ==
    IF q # <<>> /\ q[Len(q)] = " " THEN PyRStrip(SubSeq(q, 1, Len(q) - 1)) ELSE q
PyStrip(q) == PyRStrip(PyLStrip(q))

RECURSIVE Join(_)
Join(q) == IF q = <<>> THEN "" ELSE Head(q) \o Join(Tail(q))

CachedSources == {"youtube", "soundcloud"}

QCacheKey(query, source) == "qcache:" \o source \o ":" \o Join(PyStrip(PyLower(query)))

QKeys == {QCacheKey(q, src) : q \in Queries, src \in CachedSources}

(* json.loads(data) if data else None *)
get_query_cache(store, query, source) ==
    LET data == RedisGet(store, QCacheKey(query, source))
    IN  IF data.some /\ data.v # <<>> THEN Some(JsonLoads(data.v)) ELSE None

set_query_cache(store, query, results, source) ==
    RedisSetex(store, QCacheKey(query, source), QUERY_CACHE_TTL, JsonDumps(results))

(* ---------------------------------------------------------------------- *)
(* Providers: what the outside returned, and what the adapter makes of it  *)
(* ---------------------------------------------------------------------- *)
Limit(list, n) == SubSeq(list, 1, Min(Len(list), n))

(* [conv(x) for x in list if keep(x)] *)
MapFilter(list, keep(_), conv(_)) ==
    LET kept == SelectSeq(list, keep)
    IN  [i \in 1..Len(kept) |-> conv(kept[i])]

(* what a provider search that raised would hand to its caller *)
Raised == <<[raised |-> TRUE]>>

(* yt-dlp: fault = "raised" when extract_info or the loop raised; entries  *)
(* carry id and duration (0 for a missing duration)                        *)
Entry(id, duration) == [id |-> id, duration |-> duration]
YtDlpOutputs ==
    { [fault |-> "raised", entries |-> <<>>],
      [fault |-> "", entries |-> <<>>],
      [fault |-> "", entries |-> <<Entry("e0", 0), Entry("e9", MAX_DURATION + 1)>>],
      [fault |-> "", entries |-> <<Entry("e0", 0), Entry("e1", 215), Entry("e2", MAX_DURATION)>>],
      [fault |-> "", entries |-> <<Entry("e3", 1)>>] }

search_sync(out, max_results, source) ==
    IF out.fault = "raised" THEN <<>>
    ELSE Limit(MapFilter(out.entries,
                         LAMBDA e : ~(e.duration <= 0 \/ e.duration > MAX_DURATION),
                         LAMBDA e : Cand(e.id, e.duration, source, "")), max_results)

(* Yandex: fault = what went wrong ("" for nothing): no token configured,  *)
(* yandex_music not installed, the client could not be initialised, or the *)
(* search or the conversion raised; tracks carry id ("" when missing),     *)
(* duration_ms (0 when missing) and whether title and artist are present   *)
ProviderFaults == {"no_token", "no_library", "init_failed", "raised"}
YTrack(id, duration_ms, named) == [id |-> id, duration_ms |-> duration_ms, named |-> named]
YandexOutputs ==
    { [fault |-> f, tracks |-> <<>>] : f \in ProviderFaults } \cup
    { [fault |-> "", tracks |-> <<>>],
      [fault |-> "",
       tracks |-> <<YTrack("7", 215000, FALSE), YTrack("8", MAX_DURATION * 1000 + 1, TRUE)>>],
      [fault |-> "", tracks |-> <<YTrack("5", 0, TRUE)>>],
      [fault |-> "",
       tracks |-> <<YTrack("8", MAX_DURATION * 1000 + 1, TRUE), YTrack("1", 215000, TRUE),
                    YTrack("2", MAX_DURATION * 1000, TRUE)>>] }

(* _track_to_dict returns a dict (TRUE) or None (FALSE) *)
track_to_dict_ok(t) ==
    /\ t.named
    /\ ~(t.duration_ms # 0 /\ t.duration_ms > MAX_DURATION * 1000)
    /\ t.id # ""

track_to_dict(t) == Cand("ym_" \o t.id, t.duration_ms \div 1000, "yandex", "")

(* a search_yandex without its except clause *)
search_yandex_NoExcept(out, limit) ==
    IF out.fault = "no_token" THEN <<>>
    ELSE IF out.fault = "no_library" THEN <<>>
    ELSE IF out.fault = "init_failed" THEN <<>>
    ELSE IF out.fault = "raised" THEN Raised
    ELSE Limit(MapFilter(out.tracks, track_to_dict_ok, track_to_dict), limit)

(* lines 106-108, 109-113, 116-118 and 130-134 each return [] *)
search_yandex(out, limit) ==
    IF out.fault = "no_token" THEN <<>>
    ELSE IF out.fault = "no_library" THEN <<>>
    ELSE IF out.fault = "init_failed" THEN <<>>
    ELSE IF out.fault = "raised" THEN <<>>
    ELSE Limit(MapFilter(out.tracks, track_to_dict_ok, track_to_dict), limit)

(* VK: fault = what went wrong ("" for nothing): VK_TOKEN not set, vk_api   *)
(* not installed, VkApi / VkAudio raised, or the search raised; tracks     *)
(* carry owner_id and id joined, duration, and whether url, artist and     *)
(* title are all present                                                   *)
VTrack(id, duration, ok) == [id |-> id, duration |-> duration, ok |-> ok]
VkOutputs ==
    { [fault |-> f, tracks |-> <<>>] : f \in ProviderFaults } \cup
    { [fault |-> "",
       tracks |-> <<VTrack("1_1", 200, FALSE), VTrack("1_2", 0, TRUE)>>],
      [fault |-> "",
       tracks |-> <<VTrack("1_2", 0, TRUE), VTrack("1_3", 200, TRUE), VTrack("1_4", 601, TRUE)>>] }

(* search_vk line 82, _get_vk_audio lines 26-39 and _search_vk_sync lines  *)
(* 75-77 each give []                                                      *)
search_vk(out, limit) ==
    IF out.fault = "no_token" THEN <<>>
    ELSE IF out.fault \in {"no_library", "init_failed"} THEN <<>>
    ELSE IF out.fault = "raised" THEN <<>>
    ELSE Limit(MapFilter(out.tracks,
                         LAMBDA t : t.ok /\ ~(t.duration <= 0 \/ t.duration > MAX_DURATION),
                         LAMBDA t : Cand("vk_" \o t.id, t.duration, "vk", "")), limit)

(* Local index: the Track rows the query matches, in the order of the      *)
(* ORDER BY; duration 0 and file_id "" stand for NULL                      *)
Row(source_id, duration, source, file_id) ==
    [source_id |-> source_id, duration |-> duration, source |-> source, file_id |-> file_id]
LocalOutputs ==
    { <<>>,
      <<Row("tg7", 0, "channel", "FID_A")>>,
      <<Row("tg1", 180, "channel", "FID_A"), Row("e1", 700, "youtube", "FID_B")>> }

search_local_tracks(rows, limit) == Limit(rows, limit)

(* the result dicts built from the local rows *)
LocalResults(local_tracks) ==
    [i \in 1..Len(local_tracks) |->
        Cand(local_tracks[i].source_id, local_tracks[i].duration,
             IF local_tracks[i].source = "" THEN "channel" ELSE local_tracks[i].source,
             local_tracks[i].file_id)]

(* ---------------------------------------------------------------------- *)
(* _do_search: one step per await of the cascade                           *)
(* ---------------------------------------------------------------------- *)
Reqs == {"r1", "r2"}
ADMIN_IDS == {1}
ADMIN_USERNAMES == {"Kg_1988hp"}
SearchUsers == {1, 2, 111}

(* the Telegram username of a user ("" for none) *)
Username(user_id) == IF user_id = 2 THEN "KG_1988HP" ELSE ""

(* str.lower on the user names in use *)
LowerName(n) == IF n \in {"Kg_1988hp", "KG_1988HP"} THEN "kg_1988hp" ELSE n

is_admin(ids, user_id, username) ==
    \/ user_id \in ids
    \/ username # "" /\ LowerName(username) \in {LowerName(u) : u \in ADMIN_USERNAMES}

(* a get_or_create_user that does not register the id of an administrator *)
get_or_create_user_NoRegister(ids, user_id) == ids

(* get_or_create_user, as far as settings.ADMIN_IDS goes *)
get_or_create_user(ids, user_id) ==
    IF is_admin(ids, user_id, Username(user_id)) THEN ids \cup {user_id} ELSE ids
MaxResultsGroup == 1
MaxResultsDefault == 10

IsSpotifyUrl(query) == \E i \in 1..Len(query) : query[i] = SpotifyUrl

(* int(await _get_bot_setting("max_results", "10")) *)
GetMaxResults(store) ==
    IF "bot:setting:max_results" \in DOMAIN store
    THEN store["bot:setting:max_results"].val ELSE MaxResultsDefault

(* secrets.token_urlsafe(6): a fresh token for every search *)
Token(r) == IF r = "r1" THEN "s1" ELSE "s2"

IdleReq ==
    [pc |-> "idle", query |-> <<>>, group |-> FALSE, max_results |-> 0,
     local |-> <<>>, results |-> <<>>, calls |-> <<>>, got |-> <<>>,
     outcome |-> "none", presented |-> <<>>, event |-> FALSE, sid |-> ""]

Stage(name, res, prov, fault) ==
    [stage |-> name, res |-> res, prov |-> prov, fault |-> fault]

(* an exception of a provider search would leave _do_search *)
ReqCrash(r, name) ==
    req' = [req EXCEPT ![r].calls = Append(@, name), ![r].pc = "done",
                       ![r].outcome = "crashed"]

ReqEnd(r, outcome) == req' = [req EXCEPT ![r].pc = "done", ![r].outcome = outcome]

(* lines 115-151: user, ban, rate limit, Spotify link, max_results.        *)
(* resolved is what resolve_spotify returns (<<>> for None).               *)
ReqStart(r, user_id, query, is_group, is_banned, is_premium, resolved) ==
    /\ req[r].pc = "idle"
    /\ adminIds' = get_or_create_user(adminIds, user_id)
    /\ IF is_banned
       THEN /\ ReqEnd(r, "banned")
            /\ UNCHANGED kv
       ELSE LET rate == IF user_id \in adminIds'
                        THEN [store |-> kv, allowed |-> TRUE, hint |-> 0]
                        ELSE check_rate_limit(kv, user_id, is_premium)
            IN  /\ kv' = rate.store
                /\ IF ~rate.allowed
                   THEN ReqEnd(r, IF rate.hint > 0 THEN "cooldown" ELSE "exceeded")
                   ELSE IF IsSpotifyUrl(query) /\ resolved = <<>>
                   THEN ReqEnd(r, "no_results")
                   ELSE req' = [req EXCEPT
                            ![r].pc = "local",
                            ![r].query = IF IsSpotifyUrl(query) THEN resolved ELSE query,
                            ![r].group = is_group,
                            ![r].max_results = IF is_group THEN MaxResultsGroup
                                               ELSE GetMaxResults(kv)]
    /\ UNCHANGED <<qLast, now, sessLast, sel, searchRest>>

searchOnly == <<kv, qLast, now, adminIds, sessLast, sel, searchRest>>

(* a local stage that never ends the cascade *)
ReqLocal_NoShortCircuit(r, rows) ==
    /\ req[r].pc = "local"
    /\ LET local_tracks == search_local_tracks(rows, req[r].max_results)
       IN  req' = [req EXCEPT ![r].local = local_tracks,
                              ![r].results = LocalResults(local_tracks),
                              ![r].pc = "yandex"]
    /\ UNCHANGED searchOnly

(* STEP 1, lines 153-166 *)
ReqLocal(r, rows) ==
    /\ req[r].pc = "local"
    /\ LET local_tracks == search_local_tracks(rows, req[r].max_results)
       IN  req' = [req EXCEPT ![r].local = local_tracks,
                              ![r].results = LocalResults(local_tracks),
                              ![r].pc = IF local_tracks # <<>> THEN "finish" ELSE "yandex"]
    /\ UNCHANGED searchOnly

(* STEP 2, lines 188-191 *)
ReqYandex(r, out) ==
    /\ req[r].pc = "yandex"
    /\ LET results == search_yandex(out, req[r].max_results)
       IN  IF results = Raised THEN ReqCrash(r, "yandex")
           ELSE req' = [req EXCEPT
                          ![r].results = results,
                          ![r].calls = Append(@, "yandex"),
                          ![r].got = Append(@, Stage("yandex", results, TRUE, out.fault)),
                          ![r].pc = IF results # <<>> THEN "finish" ELSE "qget:youtube"]
    /\ UNCHANGED searchOnly

(* a cascade that goes from YouTube straight to VK *)
AfterStage_SkipSoundCloud(source) == "vk"

(* the stage that follows an empty YouTube or SoundCloud stage *)
AfterStage(source) == IF source = "youtube" THEN "qget:soundcloud" ELSE "vk"

(* STEPS 3 and 4, lines 195 and 203: results = await cache.get_query_cache *)
ReqCacheGet(r, source) ==
    /\ req[r].pc = "qget:" \o source
    /\ LET cached == get_query_cache(kv, req[r].query, source)
       IN  IF cached.some
           THEN req' = [req EXCEPT ![r].results = cached.v,
                                   ![r].calls = Append(@, "qget:" \o source),
                                   ![r].got = Append(@, Stage(source, cached.v, FALSE, "")),
                                   ![r].pc = IF cached.v # <<>> THEN "finish"
                                             ELSE AfterStage(source)]
           ELSE req' = [req EXCEPT ![r].calls = Append(@, "qget:" \o source),
                                   ![r].pc = "search:" \o source]
    /\ UNCHANGED searchOnly

(* lines 197 and 205: results = await search_tracks(...) *)
ReqProvider(r, source, out) ==
    /\ req[r].pc = "search:" \o source
    /\ LET results == search_sync(out, req[r].max_results, source)
       IN  IF results = Raised THEN ReqCrash(r, source)
           ELSE req' = [req EXCEPT
                          ![r].results = results,
                          ![r].calls = Append(@, source),
                          ![r].got = Append(@, Stage(source, results, TRUE, out.fault)),
                          ![r].pc = IF results # <<>> THEN "qset:" \o source
                                    ELSE AfterStage(source)]
    /\ UNCHANGED searchOnly

(* lines 198-199 and 206-207: if results: await cache.set_query_cache *)
ReqCacheSet(r, source) ==
    /\ req[r].pc = "qset:" \o source
    /\ kv' = set_query_cache(kv, req[r].query, req[r].results, source)
    /\ qLast' = [qLast EXCEPT ![QCacheKey(req[r].query, source)] =
                     [set |-> TRUE, res |-> req[r].results, age |-> 0]]
    /\ req' = [req EXCEPT ![r].calls = Append(@, "qset:" \o source),
                          ![r].pc = "finish"]
    /\ UNCHANGED <<now, adminIds, sessLast, sel, searchRest>>

(* STEP 5, lines 209-213 *)
ReqVk(r, out) ==
    /\ req[r].pc = "vk"
    /\ LET results == search_vk(out, req[r].max_results)
       IN  IF results = Raised THEN ReqCrash(r, "vk")
           ELSE req' = [req EXCEPT
                          ![r].results = results,
                          ![r].calls = Append(@, "vk"),
                          ![r].got = Append(@, Stage("vk", results, TRUE, out.fault)),
                          ![r].pc = "finish"]
    /\ UNCHANGED searchOnly

(* the timeout an outbound provider call is made with, in seconds:         *)
(* _download_sync passes socket_timeout 30 to yt-dlp, download_vk passes   *)
(* ClientTimeout(total=90); _search_sync, search_yandex, _search_vk_sync   *)
(* and download_yandex pass none                                           *)
NoTimeout == 0
CallTimeout(call) ==
    IF call = "download_track" THEN 30
    ELSE IF call = "download_vk" THEN 90
    ELSE NoTimeout

(* the provider call a stage of the cascade awaits *)
SearchStages == {"yandex", "search:youtube", "search:soundcloud", "vk"}
SearchCall(stage) ==
    IF stage = "yandex" THEN "search_yandex"
    ELSE IF stage = "vk" THEN "search_vk"
    ELSE "search_tracks"

(* lines 188, 197, 205 and 210 when the provider never responds: a call    *)
(* made without a timeout never returns, and _do_search stays at its await *)
ReqSilent(r) ==
    /\ req[r].pc \in SearchStages
    /\ CallTimeout(SearchCall(req[r].pc)) = NoTimeout
    /\ req' = [req EXCEPT ![r].pc = "await:" \o SearchCall(req[r].pc)]
    /\ UNCHANGED searchOnly

(* lines 167-186 and 215-239: no results, or the history event and then    *)
(* the auto-play of results[0] (group) or the stored session and keyboard  *)
ReqFinish(r, session_id) ==
    /\ req[r].pc = "finish"
    /\ IF req[r].results = <<>>
       THEN /\ ReqEnd(r, "no_results")
            /\ UNCHANGED <<kv, sessLast>>
       ELSE IF req[r].group
       THEN /\ req' = [req EXCEPT ![r].pc = "done", ![r].outcome = "autoplay",
                                  ![r].event = TRUE,
                                  ![r].presented = <<req[r].results[1]>>]
            /\ UNCHANGED <<kv, sessLast>>
       ELSE /\ kv' = store_search(kv, session_id, req[r].results)
            /\ sessLast' = [sessLast EXCEPT ![session_id] =
                               [set |-> TRUE, res |-> req[r].results, age |-> 0]]
            /\ req' = [req EXCEPT ![r].pc = "done", ![r].outcome = "shown",
                                  ![r].event = TRUE, ![r].sid = session_id,
                                  ![r].presented = req[r].results]
    /\ UNCHANGED <<qLast, now, adminIds, sel, searchRest>>

(* ---------------------------------------------------------------------- *)
(* Delivery of a selected candidate (handle_track_select from line 418,    *)
(* _group_auto_play): local handle, delivery cache, provider download      *)
(* ---------------------------------------------------------------------- *)
MAX_FILE_SIZE == 47185920
DEFAULT_BITRATE == 192
MIN_BITRATE == 128

DelProcs == {"d1", "d2", "d3"}

YtCand == Cand("yt1", 215, "youtube", "")
YmCand == Cand("ym_7", 215, "yandex", "")
VkCand == Cand("vk_1_3", 200, "vk", "")
DelCands == {LocalCand, YtCand, YmCand, VkCand}

(* user.quality *)
Qualities == {"128", "320", "auto"}

(* int(user.quality) if user.quality in ("128", "192", "320") else default_br *)
PickBitrate(quality) ==
    IF quality = "128" THEN 128
    ELSE IF quality = "192" THEN 192
    ELSE IF quality = "320" THEN 320
    ELSE DEFAULT_BITRATE

(* a download variant (yandex_music DownloadInfo: codec, bitrate_in_kbps) *)
Info(codec, kbps) == [codec |-> codec, bitrate_in_kbps |-> kbps]

(* the variants Yandex offers when it has every MP3 bitrate *)
AllInfos == <<Info("mp3", 128), Info("mp3", 192), Info("mp3", 320)>>

(* what the provider has for the track: the variants Yandex lists, or the  *)
(* one file VK serves                                                      *)
ServedLists == {AllInfos, <<Info("mp3", 128), Info("mp3", 320)>>, <<Info("aac", 256)>>}

(* str(e) of an exception, in pieces: the piece the handler looks for is   *)
(* one piece                                                               *)
AgeMarker == "Sign in to confirm your age"
DownloadError == <<"ERROR: unable to download video data">>
PublishError == <<"Telegram server says - Bad Request: file must be non-empty">>
AgeError ==
    <<"ERROR: [youtube] yt1: ", AgeMarker, ". This video may be inappropriate for some users.">>
BotError == <<"ERROR: [youtube] yt1: ", "Sign in to confirm you're not a bot">>
ErrMsgs == {DownloadError, AgeError, BotError}

(* what a download gives: an exception, or a file of some size; served is  *)
(* what the provider has, left the suffixes of the files the fetch wrote   *)
(* into DOWNLOAD_DIR and left there                                        *)
Fetch(raised, size, served, left) ==
    [raised |-> raised, size |-> size, served |-> served, left |-> left,
     msg |-> IF raised THEN DownloadError ELSE <<>>]

(* a download that raises an exception with this message *)
Failed(msg, left) == [Fetch(TRUE, 0, AllInfos, left) EXCEPT !.msg = msg]

(* "Sign in to confirm your age" in err_msg *)
Contains(err_msg, marker) == \E i \in 1..Len(err_msg) : err_msg[i] = marker

(* a handler that knows the generic failure only *)
ErrorText_Generic(err_msg) == "error_download"

(* lines 513-519: the text the user gets for an exception *)
ErrorText(err_msg) ==
    IF Contains(err_msg, AgeMarker) THEN "error_age_restricted" ELSE "error_download"

(* the downloads of a provider that has every bitrate and leaves only the  *)
(* MP3 behind                                                              *)
DownloadResults ==
    { Fetch(TRUE, 0, AllInfos, {}),
      Fetch(FALSE, MAX_FILE_SIZE, AllInfos, {"mp3"}),
      Fetch(FALSE, MAX_FILE_SIZE + 1, AllInfos, {"mp3"}) }

(* every download: any list of variants; a thumbnail that EmbedThumbnail   *)
(* left beside the MP3; a failed fetch that had written the thumbnail and  *)
(* the source audio, or part of the target file                            *)
FetchResults ==
    { Fetch(FALSE, size, served, left) :
        size \in {MAX_FILE_SIZE, MAX_FILE_SIZE + 1}, served \in ServedLists,
        left \in {{"mp3"}, {"mp3", "webp"}} }
    \cup { Fetch(TRUE, 0, AllInfos, left) : left \in {{}, {"mp3"}, {"webp", "webm"}} }

(* the files a fetch of this downloader can leave: download_yandex and     *)
(* download_vk write the target file only, yt-dlp writes the source audio  *)
(* and the thumbnail and makes the MP3 last                                *)
CanLeave(by, res) ==
    /\ ~res.raised => "mp3" \in res.left
    /\ IF by = "download_track" THEN res.raised => "mp3" \notin res.left
       ELSE res.left \subseteq {"mp3"}

(* sorted(mp3_infos, key=bitrate_in_kbps, reverse=True): the MP3 variants, *)
(* highest bitrate first                                                   *)
RECURSIVE InsertInfo(_, _)
InsertInfo(di, sorted) ==
    IF sorted = <<>> THEN <<di>>
    ELSE IF di.bitrate_in_kbps > Head(sorted).bitrate_in_kbps THEN <<di>> \o sorted
    ELSE <<Head(sorted)>> \o InsertInfo(di, Tail(sorted))

RECURSIVE SortedMp3(_)
SortedMp3(infos) ==
    IF infos = <<>> THEN <<>>
    ELSE IF Head(infos).codec = "mp3" THEN InsertInfo(Head(infos), SortedMp3(Tail(infos)))
    ELSE SortedMp3(Tail(infos))

RECURSIVE OtherInfos(_)
OtherInfos(infos) ==
    IF infos = <<>> THEN <<>>
    ELSE IF Head(infos).codec # "mp3" THEN <<Head(infos)>> \o OtherInfos(Tail(infos))
    ELSE OtherInfos(Tail(infos))

RECURSIVE FirstWithin(_, _, _)
FirstWithin(sorted_infos, bitrate, chosen) ==
    IF sorted_infos = <<>> THEN chosen
    ELSE IF Head(sorted_infos).codec = "mp3" /\ Head(sorted_infos).bitrate_in_kbps <= bitrate
         THEN Head(sorted_infos)
    ELSE FirstWithin(Tail(sorted_infos), bitrate, chosen)

(* download_yandex: the variant chosen for the requested bitrate *)
ChooseInfo(infos, bitrate) ==
    LET sorted_infos == SortedMp3(infos) \o OtherInfos(infos)
    IN  FirstWithin(sorted_infos, bitrate, sorted_infos[1])

(* sent.audio.file_id of an uploaded file: a new handle per upload *)
Uploaded(d) == "FID_" \o d

(* download_yandex / download_vk / download_track, by the candidate *)
Downloader(cand) ==
    IF cand.source = "yandex" THEN "download_yandex"
    ELSE IF cand.source = "vk" THEN "download_vk"
    ELSE "download_track"

(* the bitrate of the file a download writes: yt-dlp transcodes to the     *)
(* bitrate asked for, download_yandex saves the variant it chose,          *)
(* download_vk saves the file VK serves                                    *)
ActualBitrate(by, bitrate, served) ==
    IF by = "download_yandex" THEN ChooseInfo(served, bitrate).bitrate_in_kbps
    ELSE IF by = "download_vk" THEN served[1].bitrate_in_kbps
    ELSE bitrate

(* mp3_path = None *)
NoPath == <<>>

(* settings.DOWNLOAD_DIR / f"{video_id}.mp3" *)
Mp3Path(video_id) == <<video_id, "mp3">>

(* the files a fetch wrote for the track *)
Written(video_id, left) == {<<video_id, suffix>> : suffix \in left}

(* cleanup_file: the file and the thumbnails beside it *)
cleanup_file(files, path) ==
    files \ ({path} \cup {<<path[1], ext>> : ext \in {"jpg", "jpeg", "png", "webp"}})

(* the finally block: if mp3_path: cleanup_file(mp3_path) *)
Finally(files, mp3_path) ==
    IF mp3_path # NoPath THEN cleanup_file(files, mp3_path) ELSE files

IdleDel ==
    [pc |-> "idle", cand |-> NoCand, requested |-> 0, bitrate |-> 0, via |-> "",
     looked |-> FALSE, fetched |-> <<>>, size |-> 0, handle |-> "", sent |-> FALSE,
     caption |-> 0, cached |-> 0, row |-> "", upserts |-> 0, outcome |-> "none",
     actual |-> 0, mp3_path |-> NoPath, created |-> {}, left |-> {}]

DelEnd(d, outcome) == dl' = [dl EXCEPT ![d].pc = "done", ![d].outcome = outcome]

(* a delivery that never uses the candidate's own file_id *)
HasLocal_Never(cand) == FALSE

(* lines 424-425: local_fid = track_info.get("file_id"); if local_fid *)
HasLocal(cand) == cand.file_id # ""

(* lines 418-425: the candidate, the bitrate, the candidate's own file_id *)
DelStart(d, cand, quality) ==
    /\ dl[d].pc = "idle"
    /\ LET bitrate == PickBitrate(quality)
       IN  dl' = [dl EXCEPT ![d].cand = cand,
                            ![d].requested = bitrate,
                            ![d].bitrate = bitrate,
                            ![d].via = IF HasLocal(cand) THEN "local" ELSE "",
                            ![d].handle = IF HasLocal(cand) THEN cand.file_id ELSE "",
                            ![d].pc = IF HasLocal(cand) THEN "send_handle"
                                      ELSE "cache_get"]
    /\ UNCHANGED <<kv, tracks, disk, exceptDeliver>>

(* lines 445-446: file_id = await cache.get_file_id(video_id, bitrate) *)
DelCacheGet(d) ==
    /\ dl[d].pc = "cache_get"
    /\ LET file_id == get_file_id(kv, dl[d].cand.video_id, dl[d].bitrate)
           hit == file_id.some /\ file_id.v # ""
       IN  dl' = [dl EXCEPT ![d].looked = TRUE,
                            ![d].via = IF hit THEN "cache" ELSE "download",
                            ![d].handle = IF hit THEN file_id.v ELSE "",
                            ![d].pc = IF hit THEN "send_handle" ELSE "download"]
    /\ UNCHANGED <<kv, tracks, disk, exceptDeliver>>

(* lines 426-433 and 447-455: answer_audio(audio=<handle>); ok = Telegram  *)
(* took it (an exception leaves the handler here)                          *)
DelSendHandle(d, ok) ==
    /\ dl[d].pc = "send_handle"
    /\ IF ok
       THEN dl' = [dl EXCEPT ![d].sent = TRUE, ![d].caption = dl[d].bitrate,
                             ![d].pc = "post"]
       ELSE DelEnd(d, "raised")
    /\ UNCHANGED <<kv, tracks, disk, exceptDeliver>>

(* a delivery that never retries *)
NeedsRetry_Never(cand, size, bitrate) == FALSE

(* line 483: file_size > MAX_FILE_SIZE and bitrate > 128 and source not in *)
(* ("vk", "yandex")                                                        *)
NeedsRetry(cand, size, bitrate) ==
    /\ size > MAX_FILE_SIZE
    /\ bitrate > MIN_BITRATE
    /\ cand.source \notin {"vk", "yandex"}

(* lines 472-483: the download at the requested bitrate and its size.     *)
(* mp3_path is set before download_yandex and download_vk run, and only    *)
(* from the return value of download_track; an exception leaves through    *)
(* the finally block                                                       *)
DelDownload(d, res) ==
    /\ dl[d].pc = "download"
    /\ CanLeave(Downloader(dl[d].cand), res)
    /\ LET by == Downloader(dl[d].cand)
           call == [by |-> by, bitrate |-> dl[d].bitrate,
                    raised |-> res.raised, size |-> res.size, msg |-> res.msg]
           written == Written(dl[d].cand.video_id, res.left)
           mp3_path == IF by = "download_track" /\ res.raised THEN NoPath
                       ELSE Mp3Path(dl[d].cand.video_id)
       IN  IF res.raised
           THEN /\ disk' = Finally(disk \cup written, mp3_path)
                /\ dl' = [dl EXCEPT ![d].fetched = Append(@, call),
                                    ![d].mp3_path = mp3_path,
                                    ![d].created = @ \cup written,
                                    ![d].left = (dl[d].created \cup written) \cap disk',
                                    ![d].pc = "done", ![d].outcome = ErrorText(res.msg)]
           ELSE /\ disk' = disk \cup written
                /\ dl' = [dl EXCEPT ![d].fetched = Append(@, call),
                                    ![d].mp3_path = mp3_path,
                                    ![d].created = @ \cup written,
                                    ![d].size = res.size,
                                    ![d].actual = ActualBitrate(by, dl[d].bitrate, res.served),
                                    ![d].pc = IF NeedsRetry(dl[d].cand, res.size, dl[d].bitrate)
                                              THEN "retry" ELSE "send_file"]
    /\ UNCHANGED <<kv, tracks, exceptDeliver>>

(* lines 484-492: cleanup_file(mp3_path), mp3_path = None,                 *)
(* download_track(video_id, 128); a retry that is still too large returns  *)
DelRetry(d, res) ==
    /\ dl[d].pc = "retry"
    /\ CanLeave("download_track", res)
    /\ LET call == [by |-> "download_track", bitrate |-> MIN_BITRATE,
                    raised |-> res.raised, size |-> res.size, msg |-> res.msg]
           written == Written(dl[d].cand.video_id, res.left)
           cleaned == cleanup_file(disk, dl[d].mp3_path)
           mp3_path == IF res.raised THEN NoPath ELSE Mp3Path(dl[d].cand.video_id)
           returns == res.raised \/ res.size > MAX_FILE_SIZE
       IN  /\ disk' = IF returns THEN Finally(cleaned \cup written, mp3_path)
                       ELSE cleaned \cup written
           /\ IF res.raised
              THEN dl' = [dl EXCEPT ![d].fetched = Append(@, call), ![d].size = 0,
                                    ![d].mp3_path = mp3_path,
                                    ![d].created = @ \cup written,
                                    ![d].left = (dl[d].created \cup written) \cap disk',
                                    ![d].pc = "done", ![d].outcome = ErrorText(res.msg)]
              ELSE dl' = [dl EXCEPT ![d].fetched = Append(@, call),
                                    ![d].bitrate = MIN_BITRATE,
                                    ![d].actual = ActualBitrate("download_track", MIN_BITRATE,
                                                                res.served),
                                    ![d].mp3_path = mp3_path,
                                    ![d].created = @ \cup written,
                                    ![d].left = IF returns
                                                THEN (dl[d].created \cup written) \cap disk'
                                                ELSE @,
                                    ![d].size = res.size,
                                    ![d].pc = IF res.size > MAX_FILE_SIZE THEN "done"
                                              ELSE "send_file",
                                    ![d].outcome = IF res.size > MAX_FILE_SIZE
                                                   THEN "too_large" ELSE @]
    /\ UNCHANGED <<kv, tracks, exceptDeliver>>

(* lines 472-487 when the provider never responds: a download made with a  *)
(* timeout raises when it expires, one made without never returns          *)
DelSilent(d) ==
    /\ dl[d].pc \in {"download", "retry"}
    /\ LET by == IF dl[d].pc = "retry" THEN "download_track" ELSE Downloader(dl[d].cand)
       IN  IF CallTimeout(by) = NoTimeout
           THEN /\ dl' = [dl EXCEPT ![d].pc = "await:" \o by]
                /\ UNCHANGED <<kv, tracks, disk, exceptDeliver>>
           ELSE IF dl[d].pc = "retry" THEN DelRetry(d, Fetch(TRUE, 0, AllInfos, {}))
           ELSE DelDownload(d, Fetch(TRUE, 0, AllInfos, {}))

(* lines 494-500: answer_audio(audio=FSInputFile(mp3_path)); the upload    *)
(* needs the file to be there still                                        *)
DelSendFile(d, ok) ==
    /\ dl[d].pc = "send_file"
    /\ ok => dl[d].mp3_path \in disk
    /\ IF ok
       THEN /\ dl' = [dl EXCEPT ![d].sent = TRUE, ![d].caption = dl[d].bitrate,
                                ![d].handle = Uploaded(d), ![d].pc = "cache_set"]
            /\ UNCHANGED disk
       ELSE /\ disk' = Finally(disk, dl[d].mp3_path)
            /\ dl' = [dl EXCEPT ![d].pc = "done", ![d].outcome = ErrorText(PublishError),
                                ![d].left = dl[d].created \cap disk']
    /\ UNCHANGED <<kv, tracks, exceptDeliver>>

(* line 502: await cache.set_file_id(video_id, sent.audio.file_id, bitrate) *)
DelCacheSet(d) ==
    /\ dl[d].pc = "cache_set"
    /\ kv' = set_file_id(kv, dl[d].cand.video_id, dl[d].handle, dl[d].bitrate)
    /\ dl' = [dl EXCEPT ![d].cached = dl[d].bitrate, ![d].pc = "post"]
    /\ UNCHANGED <<tracks, disk, exceptDeliver>>

(* Track(...) of upsert_track: the row a first writer adds; "" stands for  *)
(* None                                                                    *)
Track(title, artist, duration, file_id, source, channel) ==
    [title |-> title, artist |-> artist, duration |-> duration, file_id |-> file_id,
     source |-> source, channel |-> channel, downloads |-> 1]

(* update(Track).values(file_id=file_id or track.file_id,                  *)
(* downloads=Track.downloads + 1): row is the stored row, track the row    *)
(* the SELECT had read                                                     *)
UpdatedTrack(row, track, file_id) ==
    [row EXCEPT !.file_id = IF file_id # "" THEN file_id ELSE track.file_id,
                !.downloads = @ + 1]

(* track_info["title"] and track_info["uploader"] of a candidate *)
TitleOf(cand) == "title of " \o cand.video_id
UploaderOf(cand) == "uploader of " \o cand.video_id

(* _post_download up to upsert_track's SELECT (db.py lines 122-125) *)
DelPost(d) ==
    /\ dl[d].pc = "post"
    /\ dl' = [dl EXCEPT ![d].row = IF dl[d].cand.video_id \in DOMAIN tracks
                                    THEN "found" ELSE "none",
                        ![d].pc = "upsert"]
    /\ UNCHANGED <<kv, tracks, disk, exceptDeliver>>

(* upsert_track's INSERT or UPDATE and commit (db.py lines 127-152);       *)
(* source_id is unique, so the INSERT of a row that now exists raises,     *)
(* which the download path reports as a download error.  The handler       *)
(* returns here, through the finally block on the download path            *)
DelUpsert(d) ==
    /\ dl[d].pc = "upsert"
    /\ disk' = Finally(disk, dl[d].mp3_path)
    /\ LET id == dl[d].cand.video_id
           left == dl[d].created \cap disk'
       IN  IF dl[d].row = "none"
           THEN IF id \in DOMAIN tracks
                THEN /\ dl' = [dl EXCEPT ![d].pc = "done", ![d].left = left,
                                         ![d].outcome = IF dl[d].via = "download"
                                                        THEN "error_download" ELSE "raised"]
                     /\ UNCHANGED tracks
                ELSE /\ tracks' = (id :> Track(TitleOf(dl[d].cand), UploaderOf(dl[d].cand),
                                                dl[d].cand.duration, dl[d].handle,
                                                dl[d].cand.source, "external"))
                                      @@ tracks
                     /\ dl' = [dl EXCEPT ![d].upserts = @ + 1, ![d].pc = "done",
                                         ![d].left = left, ![d].outcome = "delivered"]
           ELSE /\ tracks' = [tracks EXCEPT ![id] = UpdatedTrack(@, @, dl[d].handle)]
                /\ dl' = [dl EXCEPT ![d].upserts = @ + 1, ![d].pc = "done",
                                    ![d].left = left, ![d].outcome = "delivered"]
    /\ UNCHANGED <<kv, exceptDeliver>>


(* ---------------------------------------------------------------------- *)
(* upsert_track, called on its own: the SELECT and the write are two       *)
(* awaits of one session                                                   *)
(* ---------------------------------------------------------------------- *)
UpProcs == {"u1", "u2", "u3"}
UpSourceIds == {"tg1", "yt9"}
UpFileIds == {"", "FID_X", "FID_Y"}

(* the metadata a caller passes *)
UpMetas ==
    { [title |-> "T1", artist |-> "A1", duration |-> 100, source |-> "youtube",
       channel |-> "external"],
      [title |-> "T2", artist |-> "A2", duration |-> 200, source |-> "channel",
       channel |-> "fullmoon"] }

IdleUp == [pc |-> "idle", source_id |-> "", meta |-> [title |-> "", artist |-> "",
           duration |-> 0, source |-> "", channel |-> ""], file_id |-> "",
           track |-> None, before |-> None, after |-> None, outcome |-> "none"]

(* lines 122-125: track = (SELECT ... WHERE source_id = ...).scalar_one_or_none() *)
UpSelect(u, source_id, meta, file_id) ==
    /\ up[u].pc = "idle"
    /\ up' = [up EXCEPT ![u] = [IdleUp EXCEPT
                 !.pc = "write", !.source_id = source_id, !.meta = meta,
                 !.file_id = file_id,
                 !.track = IF source_id \in DOMAIN tracks THEN Some(tracks[source_id])
                           ELSE None]]
    /\ UNCHANGED <<tracks, exceptUpsert>>

(* lines 127-152: session.add(Track(...)) or the UPDATE, and the commit;   *)
(* source_id is unique, so the commit of a second row raises               *)
(* IntegrityError                                                          *)
UpWrite(u) ==
    /\ up[u].pc = "write"
    /\ LET id == up[u].source_id
           before == IF id \in DOMAIN tracks THEN Some(tracks[id]) ELSE None
       IN  IF up[u].track = None
           THEN IF id \in DOMAIN tracks
                THEN /\ up' = [up EXCEPT ![u].pc = "done", ![u].before = before,
                                         ![u].after = before,
                                         ![u].outcome = "IntegrityError"]
                     /\ UNCHANGED tracks
                ELSE /\ tracks' = (id :> Track(up[u].meta.title, up[u].meta.artist,
                                                up[u].meta.duration, up[u].file_id,
                                                up[u].meta.source, up[u].meta.channel))
                                      @@ tracks
                     /\ up' = [up EXCEPT ![u].pc = "done", ![u].before = before,
                                         ![u].after = Some(tracks'[id]),
                                         ![u].outcome = "created"]
           ELSE /\ tracks' = [tracks EXCEPT ![id] =
                                 UpdatedTrack(@, up[u].track.v, up[u].file_id)]
                /\ up' = [up EXCEPT ![u].pc = "done", ![u].before = before,
                                    ![u].after = Some(tracks'[id]),
                                    ![u].outcome = "updated"]
    /\ UNCHANGED exceptUpsert

(* ---------------------------------------------------------------------- *)
(* The middlewares: ThrottleMiddleware and CaptchaMiddleware               *)
(* ---------------------------------------------------------------------- *)
FLOOD_WINDOW == 1
VERIFIED_TTL == 2592000
CHALLENGE_TTL == 600

(* event.from_user is None *)
NoUser == 0
MwUsers == {NoUser, 202, 303}
Msgs == {"m1", "m2"}
(* random.randint(1, 20), narrowed to its two ends *)
Dice == {1, 20}

(* a message text as its pieces; <<>> stands for no text (None or "") *)
Texts == {<<>>, <<" ", "/start", " ", "promo">>, <<" ", "2", " ">>, <<"40">>}

(* str.strip *)
RECURSIVE LStrip(_)
LStrip(text) == IF text # <<>> /\ Head(text) = " " THEN LStrip(Tail(text)) ELSE text

RECURSIVE RStrip(_)
RStrip(text) ==
    IF text # <<>> /\ text[Len(text)] = " " THEN RStrip(SubSeq(text, 1, Len(text) - 1))
    ELSE text

Strip(text) == RStrip(LStrip(text))

RECURSIVE Joined(_)
Joined(text) == IF text = <<>> THEN "" ELSE Head(text) \o Joined(Tail(text))

(* event.text and event.text.strip().startswith("/start") *)
IsStartCommand(text) == text # <<>> /\ Strip(text) # <<>> /\ Head(Strip(text)) = "/start"

FloodKey(user_id) == "flood:" \o ToString(user_id)
verified_key(user_id) == "captcha:ok:" \o ToString(user_id)
challenge_key(user_id) == "captcha:q:" \o ToString(user_id)

(* redis.exists *)
RedisExists(store, k) == k \in DOMAIN store

(* redis.delete *)
RedisDelete(store, k) == [x \in DOMAIN store \ {k} |-> store[x]]

IdleMsg == [pc |-> "idle", kind |-> "", user |-> NoUser, chat |-> "private",
            captcha_passed |-> FALSE, payment |-> FALSE, text |-> <<>>, flood |-> FALSE, verified |-> FALSE,
            found |-> None, passed |-> FALSE, sent |-> FALSE, deleted |-> FALSE,
            reply |-> ""]

MwEnd(m) == mw[m].pc \in {"idle", "done"}

(* a throttle that never sees the marker *)
IsFlooding_Never(store, user_id) == FALSE

(* await cache.redis.exists(flood_key) *)
IsFlooding(store, user_id) == RedisExists(store, FloodKey(user_id))

(* ThrottleMiddleware.__call__ up to the marker test *)
ThrottleCall(m, user_id, payment) ==
    /\ MwEnd(m)
    /\ LET arrived == [IdleMsg EXCEPT !.kind = "throttle", !.user = user_id,
                                      !.payment = payment,
                                      !.flood = user_id # NoUser /\ FloodKey(user_id) \in DOMAIN kv]
       IN  mw' = [mw EXCEPT ![m] =
                    IF user_id = NoUser THEN [arrived EXCEPT !.pc = "done", !.passed = TRUE]
                    ELSE IF IsFlooding(kv, user_id) THEN [arrived EXCEPT !.pc = "done"]
                    ELSE [arrived EXCEPT !.pc = "t_setex"]]
    /\ UNCHANGED <<kv, exceptMw, ticks>>

(* ThrottleMiddleware.__call__: the marker is set and the handler is called *)
ThrottleSetex(m) ==
    /\ mw[m].pc = "t_setex"
    /\ kv' = RedisSetex(kv, FloodKey(mw[m].user), FLOOD_WINDOW, "1")
    /\ mw' = [mw EXCEPT ![m].pc = "done", ![m].passed = TRUE]
    /\ UNCHANGED <<exceptMw, ticks>>

(* a captcha that takes everybody for verified *)
IsVerified_Always(store, user_id) == TRUE

(* await cache.redis.exists(_verified_key(user.id)) *)
IsVerified(store, user_id) == RedisExists(store, verified_key(user_id))

(* CaptchaMiddleware.__call__ up to the verified test *)
(* chat (event.chat.type), payment (event.successful_payment) and           *)
(* captcha_passed (the flag the tests put on the stored profile) are       *)
(* recorded with the event; __call__ reads none of them                    *)
CaptchaCall(m, user_id, chat, payment, captcha_passed, text) ==
    /\ MwEnd(m)
    /\ LET arrived == [IdleMsg EXCEPT !.kind = "captcha", !.user = user_id, !.text = text,
                                      !.chat = chat, !.payment = payment,
                                      !.captcha_passed = captcha_passed,
                                      !.verified = user_id # NoUser
                                                   /\ verified_key(user_id) \in DOMAIN kv]
       IN  mw' = [mw EXCEPT ![m] =
                    IF user_id = NoUser \/ IsVerified(kv, user_id)
                    THEN [arrived EXCEPT !.pc = "done", !.passed = TRUE]
                    ELSE [arrived EXCEPT !.pc = "c_look"]]
    /\ UNCHANGED <<kv, exceptMw, ticks>>

(* CaptchaMiddleware.__call__: the pending challenge is looked up *)
CaptchaLook(m) ==
    /\ mw[m].pc = "c_look"
    /\ LET answer == RedisGet(kv, challenge_key(mw[m].user))
           seen == [mw[m] EXCEPT !.found = answer]
       IN  mw' = [mw EXCEPT ![m] =
                    IF IsStartCommand(mw[m].text)
                    THEN IF RedisExists(kv, challenge_key(mw[m].user))
                         THEN [seen EXCEPT !.pc = "done"]
                         ELSE [seen EXCEPT !.pc = "c_send"]
                    ELSE IF answer = None THEN [seen EXCEPT !.pc = "c_send"]
                    ELSE IF Joined(Strip(mw[m].text)) = answer.v
                         THEN [seen EXCEPT !.pc = "c_verify"]
                    ELSE [seen EXCEPT !.pc = "done", !.reply = "captcha_fail"]]
    /\ UNCHANGED <<kv, exceptMw, ticks>>

(* _send_challenge *)
CaptchaSend(m, a, b) ==
    /\ mw[m].pc = "c_send"
    /\ kv' = RedisSetex(kv, challenge_key(mw[m].user), CHALLENGE_TTL, ToString(a + b))
    /\ mw' = [mw EXCEPT ![m].pc = "done", ![m].sent = TRUE, ![m].reply = "captcha_prompt"]
    /\ UNCHANGED <<exceptMw, ticks>>

(* CaptchaMiddleware.__call__: a right answer verifies the user *)
CaptchaVerify(m) ==
    /\ mw[m].pc = "c_verify"
    /\ kv' = RedisSetex(kv, verified_key(mw[m].user), VERIFIED_TTL, "1")
    /\ mw' = [mw EXCEPT ![m].pc = "c_delete"]
    /\ UNCHANGED <<exceptMw, ticks>>

(* a right answer whose challenge stays in the store *)
CaptchaDelete_Kept(m) ==
    /\ mw[m].pc = "c_delete"
    /\ mw' = [mw EXCEPT ![m].pc = "done", ![m].deleted = TRUE, ![m].reply = "captcha_ok"]
    /\ UNCHANGED <<kv, exceptMw, ticks>>

(* CaptchaMiddleware.__call__: the answered challenge is deleted *)
CaptchaDelete(m) ==
    /\ mw[m].pc = "c_delete"
    /\ kv' = RedisDelete(kv, challenge_key(mw[m].user))
    /\ mw' = [mw EXCEPT ![m].pc = "done", ![m].deleted = TRUE, ![m].reply = "captcha_ok"]
    /\ UNCHANGED <<exceptMw, ticks>>

(* ---------------------------------------------------------------------- *)
(* Premium: handle_successful_payment                                      *)
(* ---------------------------------------------------------------------- *)
PREMIUM_DAYS == 30
PREMIUM_STAR_PRICE == 150
(* timedelta(days = 1), in seconds *)
DaySeconds == 86400
(* premium_until of a user who never paid (NULL) *)
NoDate == -1

PayUsers == {502, 503}
PayProcs == {"p1", "p2"}

(* a row of the payments table *)
Payment(user_id, amount) ==
    [user_id |-> user_id, amount |-> amount, currency |-> "XTR", payload |-> "premium_30d"]

IdlePay == [pc |-> "idle", user |-> 0, amount |-> 0, at |-> 0, premium_until |-> NoDate,
            executed |-> FALSE, added |-> FALSE, committed |-> FALSE, answered |-> FALSE,
            seen |-> [is_premium |-> FALSE, premium_until |-> NoDate], rows |-> <<>>]

(* datetime.now(timezone.utc) + timedelta(days=settings.PREMIUM_DAYS) *)
PremiumUntil(at) == at + PREMIUM_DAYS * DaySeconds

(* handle_successful_payment up to the start of the database session *)
PayStart(p, user_id, amount) ==
    /\ pay[p].pc \in {"idle", "done"}
    /\ pay' = [pay EXCEPT ![p] = [IdlePay EXCEPT !.pc = "execute", !.user = user_id,
                                                 !.amount = amount, !.at = now,
                                                 !.premium_until = PremiumUntil(now)]]
    /\ UNCHANGED <<kv, users, payments, exceptPrem>>

(* session.execute(update(User)...): held in the session until the commit *)
PayExecute(p) ==
    /\ pay[p].pc = "execute"
    /\ pay' = [pay EXCEPT ![p].pc = "commit", ![p].executed = TRUE]
    /\ UNCHANGED <<kv, users, payments, exceptPrem>>

(* session.commit() *)
PayCommit(p) ==
    /\ pay[p].pc = "commit"
    /\ users' = [users EXCEPT ![pay[p].user] =
                    [is_premium |-> TRUE, premium_until |-> pay[p].premium_until]]
    /\ pay' = [pay EXCEPT ![p].pc = "answer", ![p].committed = TRUE]
    /\ UNCHANGED <<kv, payments, exceptPrem>>

(* message.answer(premium_pay_success): what the tables hold at that time *)
PayAnswer(p) ==
    /\ pay[p].pc = "answer"
    /\ pay' = [pay EXCEPT ![p].pc = "done", ![p].answered = TRUE,
                          ![p].seen = users[pay[p].user], ![p].rows = payments]
    /\ UNCHANGED <<kv, users, payments, exceptPrem>>

(* ---------------------------------------------------------------------- *)
(* Premium of a user: the administrators' grant and revocation,            *)
(* get_or_create_user, the quality setting and the bitrate of a selection  *)
(* ---------------------------------------------------------------------- *)
exceptAcct == <<kv, tracks, disk, payments, pay, fidVars, sessVars, rateVars, concVars,
                searchVars, mwVars, upsertVars, keyVars, loadVars, ticks>>

(* models/user.py: quality defaults to "192"; granted, kept and picked     *)
(* record the administrators' grant, whether every get_or_create_user      *)
(* since has returned a premium user, the deliveries started and the chart *)
(* tracks pressed                                                          *)
IdleAcct == [quality |-> "192", granted |-> FALSE, kept |-> TRUE, picked |-> {},
             pressed |-> {}]

(* callback.data.split(":")[1] of the quality buttons *)
QualityButtons == {"128", "192", "320"}

(* get_or_create_user for a user who has a row: the automatic grant to     *)
(* administrators and the automatic revocation of an expired premium       *)
UserRow(row, admin, t) ==
    LET granted == IF admin /\ ~row.is_premium THEN [row EXCEPT !.is_premium = TRUE]
                   ELSE row
    IN  IF ~admin /\ granted.is_premium /\ granted.premium_until # NoDate
           /\ granted.premium_until < t
        THEN [granted EXCEPT !.is_premium = FALSE]
        ELSE granted

(* the user a handler of user_id is given *)
ReturnedUser(user_id) ==
    UserRow(users[user_id], is_admin(adminIds, user_id, Username(user_id)), now)

(* /admin premium and handle_grant_premium: values(is_premium=True) *)
AdminGrant(u) ==
    /\ users' = [users EXCEPT ![u].is_premium = TRUE]
    /\ acct' = [acct EXCEPT ![u].granted = TRUE, ![u].kept = TRUE]
    /\ UNCHANGED <<dl, exceptAcct>>

(* handle_revoke_premium: values(is_premium=False, premium_until=None) *)
AdminRevoke(u) ==
    /\ users' = [users EXCEPT ![u].is_premium = FALSE, ![u].premium_until = NoDate]
    /\ acct' = [acct EXCEPT ![u].granted = FALSE]
    /\ UNCHANGED <<dl, exceptAcct>>

(* cmd_settings: get_or_create_user, then the keyboard *)
UserSettings(u) ==
    /\ users' = [users EXCEPT ![u] = ReturnedUser(u)]
    /\ acct' = [acct EXCEPT ![u].kept = @ /\ ReturnedUser(u).is_premium]
    /\ UNCHANGED <<dl, exceptAcct>>

(* handle_quality_change: 320 is refused to a user who is not premium *)
QualityChange(u, quality) ==
    /\ quality \in {"128", "192", "320"}
    /\ users' = [users EXCEPT ![u] = ReturnedUser(u)]
    /\ acct' = [acct EXCEPT ![u].kept = @ /\ ReturnedUser(u).is_premium,
                            ![u].quality = IF quality = "320" /\ ~ReturnedUser(u).is_premium
                                           THEN @ ELSE quality]
    /\ UNCHANGED <<dl, exceptAcct>>

(* handle_track_select, lines 408-421: get_or_create_user, then the        *)
(* bitrate from user.quality; the delivery goes on as after DelStart       *)
UserSelect(d, u, cand) ==
    /\ dl[d].pc = "idle"
    /\ users' = [users EXCEPT ![u] = ReturnedUser(u)]
    /\ acct' = [acct EXCEPT ![u].kept = @ /\ ReturnedUser(u).is_premium,
                            ![u].picked = @ \cup {[d |-> d,
                                                   is_premium |-> ReturnedUser(u).is_premium]}]
    /\ LET bitrate == PickBitrate(acct[u].quality)
       IN  dl' = [dl EXCEPT ![d].cand = cand,
                            ![d].requested = bitrate,
                            ![d].bitrate = bitrate,
                            ![d].via = IF HasLocal(cand) THEN "local" ELSE "",
                            ![d].handle = IF HasLocal(cand) THEN cand.file_id ELSE "",
                            ![d].pc = IF HasLocal(cand) THEN "send_handle"
                                      ELSE "cache_get"]
    /\ UNCHANGED exceptAcct

(* ---------------------------------------------------------------------- *)
(* The key spaces of the store: every component on one Redis               *)
(* ---------------------------------------------------------------------- *)
CHART_TTL == 21600

KeyPairs == {<<"yt1", 192>>, <<"yt1:192", 320>>}
KeyQueries == {Q_Bo, Q_bo_}
KeySessions == {"s1"}
KeyUsers == {111}
ChartSources == {"vk"}

(* charts.py line 542: session_id = f"chart_{source}" *)
ChartSessionId(source) == "chart_" \o source

(* a chart entry {"artist", "title"} and json.dumps of a chart *)
ChartTrack(artist, title) == [artist |-> artist, title |-> title]
ChartDumps(chart) ==
    <<"[">> \o (IF chart = <<>> THEN <<>>
                ELSE <<"{", chart[1].artist, chart[1].title, "}">>) \o <<"]">>

(* the query a query-cache key stands for: query.lower().strip() *)
NormalizedQuery(query) == PyStrip(PyLower(query))

(* the log after the store key was accessed for a logical key of a namespace *)
Logged(log, namespace, logical, key) ==
    [k \in DOMAIN log \cup {key} |->
        (IF k \in DOMAIN log THEN log[k] ELSE {})
            \cup (IF k = key THEN {<<namespace, logical>>} ELSE {})]

(* cache.py lines 31-39 *)
KeyGetFileId(source_id, bitrate) ==
    /\ keyLog' = Logged(keyLog, "fid", <<source_id, bitrate>>, FidKey(source_id, bitrate))
    /\ UNCHANGED <<kv, exceptKeys>>

KeySetFileId(source_id, file_id, bitrate) ==
    /\ kv' = set_file_id(kv, source_id, file_id, bitrate)
    /\ keyLog' = Logged(keyLog, "fid", <<source_id, bitrate>>, FidKey(source_id, bitrate))
    /\ UNCHANGED exceptKeys

(* cache.py lines 43-52 *)
KeyStoreSearch(session_id, results) ==
    /\ kv' = store_search(kv, session_id, results)
    /\ keyLog' = Logged(keyLog, "search", session_id, SearchKey(session_id))
    /\ UNCHANGED exceptKeys

KeyGetSearch(session_id) ==
    /\ keyLog' = Logged(keyLog, "search", session_id, SearchKey(session_id))
    /\ UNCHANGED <<kv, exceptKeys>>

(* cache.py lines 56-65 *)
KeyGetQueryCache(query, source) ==
    /\ keyLog' = Logged(keyLog, "qcache", <<source, NormalizedQuery(query)>>,
                        QCacheKey(query, source))
    /\ UNCHANGED <<kv, exceptKeys>>

KeySetQueryCache(query, results, source) ==
    /\ kv' = set_query_cache(kv, query, results, source)
    /\ keyLog' = Logged(keyLog, "qcache", <<source, NormalizedQuery(query)>>,
                        QCacheKey(query, source))
    /\ UNCHANGED exceptKeys

(* cache.py lines 69-93: the cooldown key, and the limit key when no       *)
(* cooldown is running                                                     *)
KeyCheckRateLimit(user_id, is_premium) ==
    /\ kv' = check_rate_limit(kv, user_id, is_premium).store
    /\ keyLog' = LET seen == Logged(keyLog, "cd", user_id, CooldownKey(user_id))
                 IN  IF CooldownKey(user_id) \in DOMAIN kv THEN seen
                     ELSE Logged(seen, "limit", user_id, LimitKey(user_id))
    /\ UNCHANGED exceptKeys

(* charts.py lines 541-547: handle_chart_page keeps the chart under the    *)
(* search-session key of its own session id                                *)
KeyChartPage(source, chart) ==
    /\ kv' = RedisSetex(kv, SearchKey(ChartSessionId(source)), CHART_TTL, ChartDumps(chart))
    /\ keyLog' = Logged(keyLog, "search", ChartSessionId(source),
                        SearchKey(ChartSessionId(source)))
    /\ UNCHANGED exceptKeys

(* charts.py line 570: handle_chart_download reads search:<sid> *)
KeyChartDownload(sid) ==
    /\ keyLog' = Logged(keyLog, "search", sid, SearchKey(sid))
    /\ UNCHANGED <<kv, exceptKeys>>

(* ---------------------------------------------------------------------- *)
(* Charts: handle_chart_download, a search started from a button           *)
(* ---------------------------------------------------------------------- *)
(* callback.message.from_user.id: the message that carries the chart's     *)
(* keyboard was sent by the bot                                            *)
BotId == 7000

(* json.loads of a chart *)
ChartLoads(raw) == IF Len(raw) = 2 THEN <<>> ELSE <<ChartTrack(raw[3], raw[4])>>

(* track.get("query") or f"{artist} {title}", stripped *)
ChartQuery(track) == PyStrip(<<track.artist, " ", track.title>>)

(* the user has no rate-limit state and has pressed no chart track yet *)
NoRequestYet(u) ==
    /\ CooldownKey(u) \notin DOMAIN kv
    /\ LimitKey(u) \notin DOMAIN kv
    /\ acct[u].pressed = {}

(* handle_chart_download, pressed by user u: the session, the index, then  *)
(* _do_search(callback.message, query), lines 115-151 of search.py, with   *)
(* message.from_user the bot: its row is neither banned nor premium        *)
ChartDownload(r, u, sid, i, is_group) ==
    /\ req[r].pc = "idle"
    /\ acct' = [acct EXCEPT ![u].pressed = @ \cup {[r |-> r, fresh |-> NoRequestYet(u)]}]
    /\ LET raw == RedisGet(kv, SearchKey(sid))
           chart == ChartLoads(raw.v)
       IN  IF ~raw.some
           THEN /\ ReqEnd(r, "chart_expired")
                /\ adminIds' = get_or_create_user(adminIds, u)
                /\ UNCHANGED kv
           ELSE IF i >= Len(chart)
           THEN /\ ReqEnd(r, "chart_index")
                /\ adminIds' = get_or_create_user(adminIds, u)
                /\ UNCHANGED kv
           ELSE LET rate == IF BotId \in adminIds'
                            THEN [store |-> kv, allowed |-> TRUE, hint |-> 0]
                            ELSE check_rate_limit(kv, BotId, FALSE)
                IN  /\ adminIds' = get_or_create_user(get_or_create_user(adminIds, u), BotId)
                    /\ kv' = rate.store
                    /\ IF ~rate.allowed
                       THEN ReqEnd(r, IF rate.hint > 0 THEN "cooldown" ELSE "exceeded")
                       ELSE req' = [req EXCEPT
                                ![r].pc = "local",
                                ![r].query = ChartQuery(chart[i + 1]),
                                ![r].group = is_group,
                                ![r].max_results = IF is_group THEN MaxResultsGroup
                                                   ELSE GetMaxResults(kv)]
    /\ UNCHANGED <<qLast, now, sessLast, sel, fidVars, rateVars, concVars, deliverVars,
                   mwVars, premVars, upsertVars, keyVars, loadVars, ticks>>

(* ---------------------------------------------------------------------- *)
(* Admin: _load_channel_tracks, the scan of a channel's history            *)
(* ---------------------------------------------------------------------- *)
max_consecutive_fails == 30

(* the message ids up to which the channel may hold a message *)
ChannelLen == 3
ChannelChatId == 0 - 1001
ChannelLabel == "tequila"
MsgKinds == {"audio", "text", "missing"}
Storings == {"ok", "upsert_raises", "rpush_raises"}

exceptLoad == <<dl, disk, fidVars, sessVars, rateVars, concVars, searchVars, mwVars,
               premVars, upsertVars, keyVars, acctVars, ticks>>

IdleLoad ==
    [pc |-> "idle", msg_id |-> 0, consecutive_fails |-> 0, saved |-> 0, skipped |-> 0,
     errors |-> 0, nap |-> 0, forwarded |-> FALSE, fetch_fails |-> 0, outcome |-> "none"]

(* redis.rpush *)
RedisRpush(store, k, v) ==
    IF k \in DOMAIN store THEN [store EXCEPT ![k].val = Append(@, v)]
    ELSE (k :> [val |-> <<v>>, ttl |-> NoExpiry]) @@ store

(* source_id = f"tg_{chat_id}_{msg_id}" *)
ChannelSourceId(chat_id, msg_id) == "tg_" \o ToString(chat_id) \o "_" \o ToString(msg_id)
RadioQueueKey(label) == "radio:queue:" \o label

(* fwd.audio of the message with this id *)
ChannelAudio(msg_id) ==
    [title |-> "T" \o ToString(msg_id), performer |-> "", duration |-> 100 + msg_id,
     file_id |-> "AUD" \o ToString(msg_id)]

(* upsert_track run without interruption *)
Upserted(table, source_id, title, artist, duration, file_id, source, channel) ==
    IF source_id \in DOMAIN table
    THEN [table EXCEPT ![source_id] = UpdatedTrack(@, @, file_id)]
    ELSE (source_id :> Track(title, artist, duration, file_id, source, channel)) @@ table

(* a count that a forwarded message leaves as it was *)
AfterForward_Kept(consecutive_fails) == consecutive_fails

(* line 713: consecutive_fails = 0  # reset on success *)
AfterForward(consecutive_fails) == 0

(* lines 690-703: get_chat, and the counters *)
LoadStart(found) ==
    /\ load.pc = "idle"
    /\ load' = IF found THEN [load EXCEPT !.pc = "loop"]
               ELSE [load EXCEPT !.pc = "done", !.outcome = "no_channel"]
    /\ UNCHANGED <<kv, tracks, exceptLoad>>

(* lines 705-773, one iteration up to its asyncio.sleep: the forward, the  *)
(* upsert and the radio queue for an audio, the counters                   *)
LoadIterate(kind, storing) ==
    /\ load.pc = "loop"
    /\ load.consecutive_fails < max_consecutive_fails
    /\ kind # "missing" => load.msg_id + 1 <= ChannelLen
    /\ kind # "audio" => storing = "ok"
    /\ LET msg_id == load.msg_id + 1
           audio == ChannelAudio(msg_id)
           source_id == ChannelSourceId(ChannelChatId, msg_id)
           reset == AfterForward(load.consecutive_fails)
           item == [source_id |-> source_id, file_id |-> audio.file_id,
                    title |-> audio.title, channel |-> ChannelLabel]
       IN  IF kind = "missing"
           THEN /\ load' = [load EXCEPT !.msg_id = msg_id, !.forwarded = FALSE,
                                        !.consecutive_fails = @ + 1, !.errors = @ + 1,
                                        !.fetch_fails = @ + 1, !.nap = 50, !.pc = "sleep"]
                /\ UNCHANGED <<kv, tracks>>
           ELSE /\ tracks' = IF kind = "audio" /\ storing # "upsert_raises"
                             THEN Upserted(tracks, source_id, audio.title, audio.performer,
                                           audio.duration, audio.file_id, "channel",
                                           ChannelLabel)
                             ELSE tracks
                /\ kv' = IF kind = "audio" /\ storing = "ok"
                         THEN RedisRpush(kv, RadioQueueKey(ChannelLabel), item)
                         ELSE kv
                /\ load' = IF storing # "ok"
                           THEN [load EXCEPT !.msg_id = msg_id, !.forwarded = TRUE,
                                             !.fetch_fails = 0,
                                             !.consecutive_fails = reset + 1,
                                             !.errors = @ + 1, !.nap = 50, !.pc = "sleep"]
                           ELSE [load EXCEPT !.msg_id = msg_id, !.forwarded = TRUE,
                                             !.fetch_fails = 0,
                                             !.consecutive_fails = reset,
                                             !.saved = IF kind = "audio" THEN @ + 1 ELSE @,
                                             !.skipped = IF kind = "text" THEN @ + 1 ELSE @,
                                             !.nap = 100, !.pc = "sleep"]
    /\ UNCHANGED exceptLoad

(* the sleep is over: the while test of line 705, and the report of lines  *)
(* 775-790 when the loop is left                                           *)
LoadWake ==
    /\ load.pc = "sleep"
    /\ load' = IF load.consecutive_fails < max_consecutive_fails
               THEN [load EXCEPT !.pc = "loop", !.nap = 0]
               ELSE [load EXCEPT !.pc = "done", !.nap = 0,
                                 !.outcome = IF load.saved = 0
                                                 /\ load.msg_id <= max_consecutive_fails
                                              THEN "empty" ELSE "finished"]
    /\ UNCHANGED <<kv, tracks, exceptLoad>>

(* ---------------------------------------------------------------------- *)
(* The clock                                                               *)
(* ---------------------------------------------------------------------- *)
AgeBy(m, d, cap) == IF m.set THEN [m EXCEPT !.age = Min(@ + d, cap)] ELSE m

(* d seconds pass: Redis drops the keys that ran out; the observers age *)
Tick(d) ==
    /\ kv' = Expire(kv, d)
    /\ fidLast' = [p \in DOMAIN fidLast |-> AgeBy(fidLast[p], d, CACHE_FILE_ID_TTL)]
    /\ sessLast' = [x \in DOMAIN sessLast |-> AgeBy(sessLast[x], d, SEARCH_SESSION_TTL)]
    /\ qLast' = [k \in DOMAIN qLast |-> AgeBy(qLast[k], d, QUERY_CACHE_TTL)]
    /\ UNCHANGED <<fidRet, sel, rlRet, rl, req, adminIds, deliverVars, mwVars, premVars,
                   upsertVars, keyVars, loadVars, acctVars>>

(* a clock advance outside the searches and the rate limiter *)
TickPlain(d) == Tick(d) /\ UNCHANGED <<rlMon, now, ticks>>

Init ==
    /\ kv = EmptyStore
    /\ fidRet = [id |-> "", br |-> 0, val |-> None]
    /\ fidLast = [p \in FidPairs |-> [set |-> FALSE, h |-> "", age |-> 0]]
    /\ sessLast = [x \in SessionIds \cup {"never"} |-> [set |-> FALSE, res |-> <<>>, age |-> 0]]
    /\ sel = [sid |-> "", i |-> 0, banned |-> FALSE, age |-> -1, outcome |-> "none", track |-> NoCand]
    /\ rlRet = [called |-> FALSE, user |-> 0, prem |-> FALSE, allowed |-> FALSE, hint |-> 0]
    /\ rlMon = [scen |-> "off", since |-> 0, wait |-> 0, counted |-> FALSE,
                winCalls |-> 0, winAdmitted |-> 0, winPure |-> TRUE]
    /\ rl = [p \in Procs |-> [pc |-> "idle", prem |-> FALSE, count |-> 0,
                               allowed |-> FALSE, hint |-> 0]]
    /\ req = [r \in Reqs |-> IdleReq]
    /\ qLast = [k \in QKeys |-> [set |-> FALSE, res |-> <<>>, age |-> 0]]
    /\ now = 0
    /\ ticks = 0
    /\ adminIds = ADMIN_IDS
    /\ dl = [d \in DelProcs |-> IdleDel]
    /\ disk = {}
    /\ tracks = ("tg1" :> [Track("Tequila Mix", "DJ T", 200, "FID_A", "channel", "tequila")
                               EXCEPT !.downloads = 3])
    /\ up = [u \in UpProcs |-> IdleUp]
    /\ mw = [m \in Msgs |-> IdleMsg]
    /\ users = [u \in PayUsers |-> [is_premium |-> FALSE, premium_until |-> NoDate]]
    /\ payments = <<>>
    /\ pay = [p \in PayProcs |-> IdlePay]
    /\ keyLog = [k \in {} |-> {}]
    /\ load = IdleLoad
    /\ acct = [u \in PayUsers |-> IdleAcct]

(* ---------------------------------------------------------------------- *)
(* Specification of the delivery cache                                     *)
(* ---------------------------------------------------------------------- *)
FidDelays == {CACHE_FILE_ID_TTL - 1, CACHE_FILE_ID_TTL}

NextFid ==
    \/ \E p \in FidPairs : GetFileId(p[1], p[2])
    \/ \E p \in FidPairs, f \in FileIds : SetFileId(p[1], f, p[2])
    \/ \E d \in FidDelays : TickPlain(d)

SpecFid == Init /\ [][NextFid]_vars

(* ---------------------------------------------------------------------- *)
(* Specification of the search-session store and the track selection       *)
(* ---------------------------------------------------------------------- *)
SessDelays == {SEARCH_SESSION_TTL - 1, SEARCH_SESSION_TTL}

NextSess ==
    \/ \E x \in SessionIds, l \in SessLists : StoreSearch(x, l)
    \/ \E x \in SessionIds \cup {"never"}, i \in SelIndexes, b \in BOOLEAN :
           HandleTrackSelect(x, i, b)
    \/ \E d \in SessDelays : TickPlain(d)

SpecSess == Init /\ [][NextSess]_vars

(* ---------------------------------------------------------------------- *)
(* Specification of the rate limiter, calls one after another              *)
(* ---------------------------------------------------------------------- *)
RateDelays == {1, COOLDOWN_REGULAR, LIMIT_WINDOW}

TickRate(d) ==
    /\ ticks < RateMaxTicks
    /\ Tick(d)
    /\ rlMon' = RateObserveTick(rlMon, d)
    /\ ticks' = ticks + 1
    /\ UNCHANGED now

NextRate ==
    \/ \E u \in RateUsers, prem \in BOOLEAN : CheckRateLimit(u, prem)
    \/ \E d \in RateDelays : TickRate(d)

SpecRate == Init /\ [][NextRate]_vars

(* ---------------------------------------------------------------------- *)
(* Specification of the rate limiter under interleaving: the calls of one  *)
(* user, all made within the same second                                   *)
(* ---------------------------------------------------------------------- *)
NextConc ==
    \E p \in Procs :
        \/ \E prem \in BOOLEAN : RlCall(p, prem)
        \/ RlExists(p)
        \/ RlTtl(p)
        \/ RlIncr(p)
        \/ RlExpire(p)
        \/ RlSetex(p)

SpecConc == Init /\ [][NextConc]_vars

(* ---------------------------------------------------------------------- *)
(* Specification of the searches: requests interleave at their awaits      *)
(* ---------------------------------------------------------------------- *)
SearchMaxTicks == 1
SearchDelays == {QUERY_CACHE_TTL}

TickSearch(d) ==
    /\ ticks < SearchMaxTicks
    /\ Tick(d)
    /\ now' = now + d
    /\ ticks' = ticks + 1
    /\ UNCHANGED rlMon

(* the provider outputs without a failure *)
Answers(outputs) == {out \in outputs : out.fault = ""}

(* two searches whose providers answer *)
NextSearch ==
    \/ \E r \in Reqs, u \in SearchUsers, q \in Queries, g \in BOOLEAN, b \in BOOLEAN,
          prem \in BOOLEAN, resolved \in {<<>>, Q_Bo} :
           ReqStart(r, u, q, g, b, prem, resolved)
    \/ \E r \in Reqs, rows \in LocalOutputs : ReqLocal(r, rows)
    \/ \E r \in Reqs, out \in Answers(YandexOutputs) : ReqYandex(r, out)
    \/ \E r \in Reqs, src \in CachedSources : ReqCacheGet(r, src)
    \/ \E r \in Reqs, src \in CachedSources, out \in Answers(YtDlpOutputs) :
           ReqProvider(r, src, out)
    \/ \E r \in Reqs, src \in CachedSources : ReqCacheSet(r, src)
    \/ \E r \in Reqs, out \in Answers(VkOutputs) : ReqVk(r, out)
    \/ \E r \in Reqs : ReqFinish(r, Token(r))
    \/ \E d \in SearchDelays : TickSearch(d)

SpecSearch == Init /\ [][NextSearch]_vars

(* one search whose providers may fail in every way *)
NextFault ==
    \/ \E u \in SearchUsers, q \in Queries, g \in BOOLEAN, b \in BOOLEAN,
          prem \in BOOLEAN, resolved \in {<<>>, Q_Bo} :
           ReqStart("r1", u, q, g, b, prem, resolved)
    \/ \E rows \in LocalOutputs : ReqLocal("r1", rows)
    \/ \E out \in YandexOutputs : ReqYandex("r1", out)
    \/ \E src \in CachedSources : ReqCacheGet("r1", src)
    \/ \E src \in CachedSources, out \in YtDlpOutputs : ReqProvider("r1", src, out)
    \/ \E src \in CachedSources : ReqCacheSet("r1", src)
    \/ \E out \in VkOutputs : ReqVk("r1", out)
    \/ ReqFinish("r1", Token("r1"))

SpecFault == Init /\ [][NextFault]_vars

(* ---------------------------------------------------------------------- *)
(* Specification of the deliveries: they interleave at their awaits        *)
(* ---------------------------------------------------------------------- *)
DelStep(d) ==
    \/ DelCacheGet(d)
    \/ \E ok \in BOOLEAN : DelSendHandle(d, ok)
    \/ \E res \in DownloadResults : DelDownload(d, res)
    \/ \E res \in DownloadResults : DelRetry(d, res)
    \/ \E ok \in BOOLEAN : DelSendFile(d, ok)
    \/ DelCacheSet(d)
    \/ DelPost(d)
    \/ DelUpsert(d)

NextDeliver ==
    \/ \E d \in {"d1", "d2"}, cand \in DelCands, quality \in Qualities :
           DelStart(d, cand, quality)
    \/ \E d \in {"d1", "d2"} : DelStep(d)

SpecDeliver == Init /\ [][NextDeliver]_vars

(* three deliveries of one track at one bitrate *)
NextRace ==
    \/ \E d \in DelProcs : DelStart(d, YtCand, "auto")
    \/ \E d \in DelProcs : DelStep(d)

SpecRace == Init /\ [][NextRace]_vars

(* two deliveries with every kind of download *)
FetchStep(d) ==
    \/ DelCacheGet(d)
    \/ \E res \in FetchResults : DelDownload(d, res)
    \/ \E res \in FetchResults : DelRetry(d, res)
    \/ \E ok \in BOOLEAN : DelSendFile(d, ok)
    \/ DelCacheSet(d)
    \/ DelPost(d)
    \/ DelUpsert(d)

NextFetch ==
    \/ \E d \in {"d1", "d2"}, cand \in {YtCand, YmCand, VkCand}, quality \in Qualities :
           DelStart(d, cand, quality)
    \/ \E d \in {"d1", "d2"} : FetchStep(d)

SpecFetch == Init /\ [][NextFetch]_vars

(* ---------------------------------------------------------------------- *)
(* Specifications of the middlewares: the messages interleave at the       *)
(* awaits                                                                  *)
(* ---------------------------------------------------------------------- *)
MwMaxTicks == 1

TickMw(d) ==
    /\ ticks < MwMaxTicks
    /\ Tick(d)
    /\ ticks' = ticks + 1
    /\ UNCHANGED <<rlMon, now>>

NextThrottle ==
    \/ \E m \in Msgs, u \in MwUsers, payment \in BOOLEAN : ThrottleCall(m, u, payment)
    \/ \E m \in Msgs : ThrottleSetex(m)
    \/ TickMw(FLOOD_WINDOW)

SpecThrottle == Init /\ [][NextThrottle]_vars

NextCaptcha ==
    \/ \E m \in Msgs, u \in MwUsers, text \in Texts :
           CaptchaCall(m, u, "private", FALSE, FALSE, text)
    \/ \E m \in Msgs : CaptchaLook(m)
    \/ \E m \in Msgs, a \in Dice, b \in Dice : CaptchaSend(m, a, b)
    \/ \E m \in Msgs : CaptchaVerify(m)
    \/ \E m \in Msgs : CaptchaDelete(m)
    \/ TickMw(CHALLENGE_TTL)

SpecCaptcha == Init /\ [][NextCaptcha]_vars

(* one message after another, of every kind of event: private or group     *)
(* chat, with or without a successful payment, of a user whose profile is  *)
(* or is not marked captcha_passed                                         *)
ChatTypes == {"private", "group"}

NextCaptchaEvent ==
    \/ \E u \in MwUsers, chat \in ChatTypes, payment \in BOOLEAN, captcha_passed \in BOOLEAN,
          text \in Texts :
           CaptchaCall("m1", u, chat, payment, captcha_passed, text)
    \/ CaptchaLook("m1")
    \/ \E a \in Dice, b \in Dice : CaptchaSend("m1", a, b)
    \/ CaptchaVerify("m1")
    \/ CaptchaDelete("m1")
    \/ TickMw(CHALLENGE_TTL)

SpecCaptchaEvent == Init /\ [][NextCaptchaEvent]_vars

(* ---------------------------------------------------------------------- *)
(* Specification of the payments: two handlers interleave at their awaits  *)
(* ---------------------------------------------------------------------- *)
NextPay ==
    \/ \E p \in PayProcs, u \in PayUsers : PayStart(p, u, PREMIUM_STAR_PRICE)
    \/ \E p \in PayProcs : PayExecute(p)
    \/ \E p \in PayProcs : PayCommit(p)
    \/ \E p \in PayProcs : PayAnswer(p)
    \/ \E d \in SearchDelays : TickSearch(d)

SpecPay == Init /\ [][NextPay]_vars

(* ---------------------------------------------------------------------- *)
(* Specification of upsert_track: the callers interleave between the       *)
(* SELECT and the write                                                    *)
(* ---------------------------------------------------------------------- *)
NextUpsert ==
    \/ \E u \in UpProcs, source_id \in UpSourceIds, meta \in UpMetas, file_id \in UpFileIds :
           UpSelect(u, source_id, meta, file_id)
    \/ \E u \in UpProcs : UpWrite(u)

SpecUpsert == Init /\ [][NextUpsert]_vars

(* ---------------------------------------------------------------------- *)
(* Specification of the silent providers: one search and one delivery      *)
(* whose providers answer, fail or never respond; the event loop runs      *)
(* every coroutine that can go on                                          *)
(* ---------------------------------------------------------------------- *)
SilentReqStep(r) ==
    \/ \E rows \in LocalOutputs : ReqLocal(r, rows)
    \/ \E out \in YandexOutputs : ReqYandex(r, out)
    \/ \E src \in CachedSources : ReqCacheGet(r, src)
    \/ \E src \in CachedSources, out \in YtDlpOutputs : ReqProvider(r, src, out)
    \/ \E src \in CachedSources : ReqCacheSet(r, src)
    \/ \E out \in VkOutputs : ReqVk(r, out)
    \/ ReqFinish(r, Token(r))
    \/ ReqSilent(r)

SilentDelStep(d) ==
    \/ DelCacheGet(d)
    \/ \E res \in DownloadResults : DelDownload(d, res)
    \/ \E res \in DownloadResults : DelRetry(d, res)
    \/ DelSilent(d)
    \/ \E ok \in BOOLEAN : DelSendFile(d, ok)
    \/ DelCacheSet(d)
    \/ DelPost(d)
    \/ DelUpsert(d)

NextSilent ==
    \/ \E q \in {Q_Bo, Q_bo_}, g \in BOOLEAN : ReqStart("r1", 2, q, g, FALSE, FALSE, <<>>)
    \/ SilentReqStep("r1")
    \/ \E cand \in {YtCand, YmCand, VkCand} : DelStart("d1", cand, "auto")
    \/ SilentDelStep("d1")

SpecSilent ==
    /\ Init /\ [][NextSilent]_vars
    /\ WF_vars(SilentReqStep("r1"))
    /\ WF_vars(SilentDelStep("d1"))

(* ---------------------------------------------------------------------- *)
(* Specification of the key spaces: the caches, the session store, the     *)
(* rate limiter and the charts use one store                               *)
(* ---------------------------------------------------------------------- *)
NextKeys ==
    \/ \E p \in KeyPairs : KeyGetFileId(p[1], p[2])
    \/ \E p \in KeyPairs : KeySetFileId(p[1], "FID_A", p[2])
    \/ \E s \in KeySessions : KeyStoreSearch(s, <<SessCand(1)>>)
    \/ \E s \in KeySessions : KeyGetSearch(s)
    \/ \E q \in KeyQueries, src \in CachedSources : KeyGetQueryCache(q, src)
    \/ \E q \in KeyQueries, src \in CachedSources :
           KeySetQueryCache(q, <<SessCand(2)>>, src)
    \/ \E u \in KeyUsers : KeyCheckRateLimit(u, FALSE)
    \/ \E source \in ChartSources : KeyChartPage(source, <<ChartTrack("A", "T")>>)
    \/ \E source \in ChartSources : KeyChartDownload(ChartSessionId(source))

SpecKeys == Init /\ [][NextKeys]_vars

(* ---------------------------------------------------------------------- *)
(* Specification of the failing downloads: two deliveries whose downloads  *)
(* may raise with any message                                              *)
(* ---------------------------------------------------------------------- *)
AgeResults == DownloadResults \cup {Failed(msg, {}) : msg \in ErrMsgs}

AgeStep(d) ==
    \/ DelCacheGet(d)
    \/ \E res \in AgeResults : DelDownload(d, res)
    \/ \E res \in AgeResults : DelRetry(d, res)
    \/ \E ok \in BOOLEAN : DelSendFile(d, ok)
    \/ DelCacheSet(d)
    \/ DelPost(d)
    \/ DelUpsert(d)

NextAge ==
    \/ \E d \in {"d1", "d2"}, cand \in {YtCand, YmCand, VkCand}, quality \in Qualities :
           DelStart(d, cand, quality)
    \/ \E d \in {"d1", "d2"} : AgeStep(d)

SpecAge == Init /\ [][NextAge]_vars

(* ---------------------------------------------------------------------- *)
(* Specification of the channel load: the loop goes on whenever it can     *)
(* ---------------------------------------------------------------------- *)
LoadStep ==
    \/ \E kind \in MsgKinds, storing \in Storings : LoadIterate(kind, storing)
    \/ LoadWake

NextLoad ==
    \/ \E found \in BOOLEAN : LoadStart(found)
    \/ LoadStep

SpecLoad == Init /\ [][NextLoad]_vars /\ WF_vars(LoadStep)

(* ---------------------------------------------------------------------- *)
(* Specification of the premium status: a payment, the administrators,     *)
(* the user's handlers and a delivery, over a month                        *)
(* ---------------------------------------------------------------------- *)
PremMaxTicks == 1
PremDelays == {PREMIUM_DAYS * DaySeconds + 1}

TickPrem(d) ==
    /\ ticks < PremMaxTicks
    /\ Tick(d)
    /\ now' = now + d
    /\ ticks' = ticks + 1
    /\ UNCHANGED rlMon

PayStep(p) == PayExecute(p) \/ PayCommit(p) \/ PayAnswer(p)

(* the user whose premium is followed *)
PremUsers == {502}

NextPrem ==
    \/ \E u \in PremUsers : PayStart("p1", u, PREMIUM_STAR_PRICE)
    \/ PayStep("p1")
    \/ \E u \in PremUsers : AdminGrant(u)
    \/ \E u \in PremUsers : AdminRevoke(u)
    \/ \E u \in PremUsers : UserSettings(u)
    \/ \E u \in PremUsers, quality \in QualityButtons : QualityChange(u, quality)
    \/ \E u \in PremUsers, cand \in {LocalCand, YtCand} : UserSelect("d1", u, cand)
    \/ DelStep("d1")
    \/ \E d \in PremDelays : TickPrem(d)

SpecPrem == Init /\ [][NextPrem]_vars

(* ---------------------------------------------------------------------- *)
(* Specification of the entry points of _do_search: text messages and      *)
(* chart tracks of two users, up to the admission                          *)
(* ---------------------------------------------------------------------- *)
ChartIndexes == {0, 1}

NextChart ==
    \/ \E source \in ChartSources : KeyChartPage(source, <<ChartTrack("A", "T")>>)
    \/ \E r \in Reqs, u \in PayUsers, prem \in BOOLEAN :
           ReqStart(r, u, Q_Bo, FALSE, FALSE, prem, <<>>)
    \/ \E r \in Reqs, u \in PayUsers, source \in ChartSources, i \in ChartIndexes,
          is_group \in BOOLEAN :
           ChartDownload(r, u, ChartSessionId(source), i, is_group)
    \/ \E d \in {COOLDOWN_REGULAR, CHART_TTL} : TickSearch(d)

SpecChart == Init /\ [][NextChart]_vars

(* ---------------------------------------------------------------------- *)
(* Specification of the captcha answers: the messages of one user          *)
(* interleave at the awaits                                                *)
(* ---------------------------------------------------------------------- *)
NextAnswer ==
    \/ \E m \in Msgs, text \in Texts : CaptchaCall(m, 202, "private", FALSE, FALSE, text)
    \/ \E m \in Msgs : CaptchaLook(m)
    \/ \E m \in Msgs, a \in Dice, b \in Dice : CaptchaSend(m, a, b)
    \/ \E m \in Msgs : CaptchaVerify(m)
    \/ \E m \in Msgs : CaptchaDelete(m)
    \/ TickMw(CHALLENGE_TTL)

SpecAnswer == Init /\ [][NextAnswer]_vars




(* ====================================================================== *)
(* Properties                                                              *)
(* ====================================================================== *)

(* what the observer says get_file_id must return for a pair *)
FidExpected(p) ==
    IF fidLast[p].set /\ fidLast[p].age < CACHE_FILE_ID_TTL
    THEN Some(fidLast[p].h) ELSE None

(* C3: get_file_id(id, B) returns the handle most recently stored for       *)
(* exactly (id, B) while its TTL runs, and None when nothing was stored for *)
(* that bitrate or the TTL is over; a handle stored under another bitrate   *)
(* or another id is never returned.                                         *)
C3_FileIdPerBitrate ==
    [][\A p \in FidPairs :
          GetFileId(p[1], p[2]) => fidRet'.val = FidExpected(<<p[1], p[2]>>)]_vars

(* C5: a standard user with no rate-limit state is allowed; a second call   *)
(* made before the cooldown is over is denied with a hint above 0; a third  *)
(* call made exactly hint seconds after the second is allowed.              *)
C5_CooldownThenAllowed ==
    /\ rlMon.scen = "first" => rlRet.allowed
    /\ rlMon.scen = "second" => ~rlRet.allowed /\ rlRet.hint > 0
    /\ rlMon.scen = "third" => rlRet.allowed

(* C5 witness: the third call of the scenario has been made and allowed *)
C5_Witness == rlMon.scen = "third" /\ rlRet.allowed /\ ~rlRet.prem

(* C6: in one hourly window of a standard user, of the calls that find no   *)
(* cooldown marker the N-th is allowed and the (N+1)-th is denied with hint *)
(* 0 (N = RATE_LIMIT_REGULAR); never more than N calls are admitted in one  *)
(* window.                                                                  *)
C6_HourlyCeiling ==
    /\ (rlRet.called /\ ~rlRet.prem /\ rlMon.counted /\ rlMon.winPure) =>
          /\ rlMon.winCalls = RATE_LIMIT_REGULAR => rlRet.allowed
          /\ rlMon.winCalls = RATE_LIMIT_REGULAR + 1 => ~rlRet.allowed /\ rlRet.hint = 0
    /\ rlMon.winAdmitted <= RATE_LIMIT_REGULAR

(* C6 witness: the (N+1)-th counted call of a window was denied with hint 0 *)
(* after N admissions                                                       *)
C6_Witness ==
    /\ rlRet.called /\ ~rlRet.prem /\ rlMon.counted /\ rlMon.winPure
    /\ rlMon.winCalls = RATE_LIMIT_REGULAR + 1
    /\ rlMon.winAdmitted = RATE_LIMIT_REGULAR
    /\ ~rlRet.allowed /\ rlRet.hint = 0

(* C7: of the check_rate_limit calls of one user that run concurrently      *)
(* while no cooldown marker exists, at most one returns allowed.            *)
C7_AtMostOneAdmitted ==
    Cardinality({p \in Procs : rl[p].pc = "done" /\ rl[p].allowed}) <= 1

(* C3 witness: a get at 192 returned the handle stored at 192 while another *)
(* handle is live for the same id at 320                                    *)
C3_Witness ==
    /\ fidRet.id = "yt1" /\ fidRet.br = 192 /\ fidRet.val = Some("FID_A")
    /\ FidExpected(<<"yt1", 192>>) = Some("FID_A")
    /\ FidExpected(<<"yt1", 320>>) = Some("FID_B")

SessLive(x) == sessLast[x].set /\ sessLast[x].age < SEARCH_SESSION_TTL

(* C8: within the session TTL index i in 0..n-1 resolves to the i-th stored *)
(* candidate; every other index (too large or negative) and every session   *)
(* id never stored give the session-expired outcome, with no candidate and  *)
(* no delivery.                                                             *)
C8_SelectByIndex ==
    [][\A x \in SessionIds \cup {"never"}, i \in SelIndexes :
          HandleTrackSelect(x, i, FALSE) =>
             IF SessLive(x) /\ i >= 0 /\ i < Len(sessLast[x].res)
             THEN sel'.outcome = "resolved" /\ sel'.track = sessLast[x].res[i + 1]
             ELSE sel'.outcome = "expired" /\ sel'.track = NoCand]_vars

(* C9: once SEARCH_SESSION_TTL seconds have passed since store_search,      *)
(* get_search returns None for the session id and a selection on it ends    *)
(* with the session-expired answer: no exception, no candidate resolved.    *)
C9_ExpiredSessionFailsClosed ==
    [][\A x \in SessionIds, i \in SelIndexes :
          (HandleTrackSelect(x, i, FALSE)
             /\ sessLast[x].set /\ sessLast[x].age >= SEARCH_SESSION_TTL)
          => /\ ~get_search(kv, x).some
             /\ sel'.outcome = "expired" /\ sel'.track = NoCand]_vars

(* C9 witness: index 0 was selected on a session stored at least            *)
(* SEARCH_SESSION_TTL seconds before, and the answer was session-expired    *)
C9_Witness ==
    /\ sel.outcome = "expired" /\ sel.i = 0 /\ ~sel.banned
    /\ sel.age >= SEARCH_SESSION_TTL

(* ---------------------------------------------------------------------- *)
(* The search cascade                                                      *)
(* ---------------------------------------------------------------------- *)
(* the order of STEP 2 .. STEP 5 *)
StageOrder == <<"yandex", "youtube", "soundcloud", "vk">>

IsProviderCall(c) == c \in {"yandex", "youtube", "soundcloud", "vk"}

(* the providers a request has invoked, in the order of the invocations *)
ProviderCalls(r) == SelectSeq(req[r].calls, IsProviderCall)

(* the stages of a request that were answered by the provider itself *)
ProviderStages(r) ==
    LET p == SelectSeq(req[r].got, LAMBDA g : g.prov)
    IN  [i \in 1..Len(p) |-> p[i].stage]

(* what the user is given: the keyboard of all results, or in a group the  *)
(* first of them                                                           *)
Presented(r) ==
    IF req[r].outcome = "shown" THEN req[r].results
    ELSE IF req[r].outcome = "autoplay" THEN <<req[r].results[1]>>
    ELSE <<>>

Delivered(r) == req[r].pc = "done" /\ req[r].outcome \in {"shown", "autoplay"}

DurationOk(c) == c.duration > 0 /\ c.duration <= MAX_DURATION

(* C1: when the local index returns at least one track, the request calls  *)
(* none of Yandex, YouTube, SoundCloud, VK and never touches the query     *)
(* cache, and what it presents is exactly the list of the local matches.   *)
C1_LocalShortCircuit ==
    \A r \in Reqs :
        req[r].local # <<>> =>
            /\ req[r].calls = <<>>
            /\ req[r].got = <<>>
            /\ req[r].results = LocalResults(req[r].local)
            /\ req[r].pc \in {"finish", "done"}
            /\ req[r].pc = "done" =>
                  /\ Delivered(r)
                  /\ req[r].presented = LocalResults(req[r].local)

(* C1 witness: a finished private search presented its two local matches *)
C1_Witness ==
    \E r \in Reqs :
        /\ req[r].pc = "done" /\ req[r].outcome = "shown"
        /\ Len(req[r].local) = 2
        /\ req[r].presented = LocalResults(req[r].local)
        /\ req[r].calls = <<>>

C4_ProviderAtMostOnce ==
    \A s \in CachedSources : \A r1, r2 \in Reqs :
        \A i \in 1..Len(req[r1].got), j \in 1..Len(req[r2].got) :
            (/\ r1 # r2
             /\ now < QUERY_CACHE_TTL
             /\ QCacheKey(req[r1].query, s) = QCacheKey(req[r2].query, s)
             /\ req[r1].got[i].stage = s
             /\ req[r2].got[j].stage = s) =>
                /\ ~(req[r1].got[i].prov /\ req[r2].got[j].prov)
                /\ req[r1].got[i].res = req[r2].got[j].res

(* C10: every stage drops the candidates whose duration is 0 or less or    *)
(* above MAX_DURATION before its result is tested for emptiness, so no     *)
(* stage result, and nothing presented, holds such a candidate.            *)
C10_DurationFiltered ==
    \A r \in Reqs :
        /\ \A i \in 1..Len(req[r].results) : DurationOk(req[r].results[i])
        /\ \A i \in 1..Len(req[r].presented) : DurationOk(req[r].presented[i])


(* ---------------------------------------------------------------------- *)
(* The delivery pipeline                                                   *)
(* ---------------------------------------------------------------------- *)
(* the first download gave a file above MAX_FILE_SIZE and the requested    *)
(* bitrate is above 128                                                    *)
OversizedAbove128(x) ==
    /\ Len(x.fetched) >= 1
    /\ ~x.fetched[1].raised
    /\ x.fetched[1].size > MAX_FILE_SIZE
    /\ x.requested > MIN_BITRATE

(* the file is given up and fetched once more at 128; a retry that fits    *)
(* goes on at 128 in the caption and in the cache key; a retry that is     *)
(* still too large ends the delivery with nothing sent, cached or upserted *)
RetriedOnceAt128(x) ==
    /\ Len(x.fetched) = 1 => x.pc = "retry"
    /\ Len(x.fetched) <= 2
    /\ Len(x.fetched) = 2 =>
          /\ x.fetched[2].by = "download_track"
          /\ x.fetched[2].bitrate = MIN_BITRATE
          /\ (~x.fetched[2].raised /\ x.fetched[2].size <= MAX_FILE_SIZE) =>
                /\ x.bitrate = MIN_BITRATE
                /\ x.outcome # "too_large"
                /\ x.pc \in {"send_file", "cache_set", "post", "upsert", "done"}
          /\ (~x.fetched[2].raised /\ x.fetched[2].size > MAX_FILE_SIZE) =>
                /\ x.pc = "done" /\ x.outcome = "too_large"
                /\ ~x.sent /\ x.cached = 0 /\ x.upserts = 0
    /\ x.sent => x.caption = MIN_BITRATE
    /\ x.cached # 0 => x.cached = MIN_BITRATE
    /\ x.outcome = "too_large" => Len(x.fetched) = 2

ResolvedInOrder(x) ==
    /\ (x.pc # "idle" /\ x.cand.file_id # "") =>
          /\ x.via = "local" /\ ~x.looked /\ x.fetched = <<>>
          /\ x.handle = x.cand.file_id
    /\ x.looked => x.cand.file_id = ""
    /\ x.via = "cache" =>
          /\ x.looked /\ x.fetched = <<>> /\ x.handle # ""
          /\ x.cached = 0
    /\ x.fetched # <<>> => x.looked /\ x.via = "download"
    /\ (x.sent /\ x.via \in {"local", "cache"}) => x.fetched = <<>>

(* C12: a candidate that carries a file_id is sent by it, with no cache    *)
(* lookup and no download; otherwise the delivery cache is asked for       *)
(* (video_id, requested bitrate) and a handle found there is the one sent, *)
(* with no download; a provider download happens only after both were     *)
(* absent.                                                                 *)
C12_LocalThenCacheThenFetch ==
    /\ [](\A d \in DelProcs : ResolvedInOrder(dl[d]))
    /\ [][\A d \in DelProcs :
            DelCacheGet(d) =>
               LET k == FidKey(dl[d].cand.video_id, dl[d].requested)
               IN  IF k \in DOMAIN kv
                   THEN /\ dl'[d].pc = "send_handle"
                        /\ dl'[d].handle = kv[k].val
                   ELSE dl'[d].pc = "download"]_vars

(* C12 witness: a delivery was served from the delivery cache by the       *)
(* handle an earlier delivery uploaded, without any download               *)
C12_Witness ==
    \E d \in DelProcs :
        /\ dl[d].outcome = "delivered" /\ dl[d].via = "cache"
        /\ dl[d].fetched = <<>>
        /\ dl[d].handle \in {Uploaded(e) : e \in DelProcs \ {d}}

(* the downloads counter of a track (0 when there is no row) *)
Downloads(id) == IF id \in DOMAIN tracks THEN tracks[id].downloads ELSE 0

(* the audio reached the chat and the handler is over *)
DeliveredAudio(d) == dl[d].pc = "done" /\ dl[d].sent

(* C13: every successful delivery upserts the Track row exactly once: the  *)
(* counter of a track is what it was at the start plus the number of       *)
(* successful deliveries of the track (1 for the delivery that creates the *)
(* row), and no step ever lowers a counter.                                *)
C13_UpsertPerDelivery ==
    /\ [](\A d \in DelProcs : DeliveredAudio(d) => dl[d].upserts = 1)
    /\ [](\A c \in DelCands :
             Downloads(c.video_id) =
                 (IF c.video_id = "tg1" THEN 3 ELSE 0)
                 + Cardinality({d \in DelProcs : DeliveredAudio(d) /\ dl[d].cand = c}))
    /\ [][\A c \in DelCands : Downloads(c.video_id)' >= Downloads(c.video_id)]_vars

(* C15: of the deliveries of one track at one bitrate, at most two         *)
(* download the file and publish it: the one that is needed and at most    *)
(* one redundant one.                                                      *)
C15_AtMostOneRedundant ==
    \A c \in DelCands, b \in {128, 192, 320} :
        Cardinality({d \in DelProcs : /\ dl[d].cand = c /\ dl[d].requested = b
                                       /\ dl[d].cached = b}) <= 2


(* ---------------------------------------------------------------------- *)
(* Failures of the providers                                               *)
(* ---------------------------------------------------------------------- *)
(* where a request can be after its stage gave nothing *)
Following(stage) ==
    IF stage = "yandex" THEN {"qget:youtube", "search:youtube"}
    ELSE IF stage = "youtube" THEN {"qget:soundcloud", "search:soundcloud"}
    ELSE IF stage = "soundcloud" THEN {"vk"}
    ELSE {"finish", "done"}

(* C14: no provider search raises into _do_search: a missing token, a      *)
(* missing client library, a failed client initialisation and an exception *)
(* inside the provider call each give an empty list, and the request goes  *)
(* on to the next stage (after VK: to "nothing found").                    *)
C14_ProvidersNeverRaise ==
    \A r \in Reqs :
        /\ req[r].outcome # "crashed"
        /\ \A i \in 1..Len(req[r].got) :
              req[r].got[i].fault # "" =>
                 /\ req[r].got[i].res = <<>>
                 /\ i = Len(req[r].got) => req[r].pc \in Following(req[r].got[i].stage)
                 /\ (i = Len(req[r].got) /\ req[r].pc = "done") =>
                        req[r].outcome = "no_results"

(* C14 witness: Yandex raised, YouTube raised, SoundCloud raised, and the  *)
(* search still presented what VK found                                    *)
C14_Witness ==
    \E r \in Reqs :
        /\ req[r].pc = "done" /\ req[r].outcome = "shown"
        /\ Len(req[r].got) = 4
        /\ \A i \in 1..3 : req[r].got[i].fault = "raised"
        /\ req[r].got[4].stage = "vk" /\ req[r].presented = req[r].got[4].res


(* ---------------------------------------------------------------------- *)
(* Administrators                                                          *)
(* ---------------------------------------------------------------------- *)
Admins == {u \in SearchUsers : is_admin(ADMIN_IDS, u, Username(u))}

C17_EventAndSession ==
    \A r \in Reqs :
        (req[r].pc = "done" /\ req[r].results # <<>>) =>
            /\ req[r].event
            /\ req[r].sid # ""
            /\ sessLast[req[r].sid].set
            /\ sessLast[req[r].sid].res = req[r].results

(* ---------------------------------------------------------------------- *)
(* The middlewares                                                         *)
(* ---------------------------------------------------------------------- *)
ThrottleDone(m) == mw[m].kind = "throttle" /\ mw[m].pc = "done"

(* the flood markers in the store *)
FloodKeys == {FloodKey(u) : u \in MwUsers \ {NoUser}}

C19_PaymentNeverBlocked ==
    \A m \in Msgs : (ThrottleDone(m) /\ mw[m].payment) => mw[m].passed

(* a message of a user who was not verified when it arrived *)
Unverified(m) == mw[m].kind = "captcha" /\ mw[m].user # NoUser /\ ~mw[m].verified

(* the call stored a new challenge *)
ChallengeSent(m) == mw[m].sent /\ mw[m].reply = "captcha_prompt"

(* the call found a challenge pending and left it in place *)
ChallengeKept(m) == mw[m].found # None /\ ~mw[m].deleted

(* the message was the answer of the pending challenge: the user is        *)
(* verified and the challenge is removed                                   *)
ChallengeSolved(m) ==
    /\ mw[m].found # None
    /\ Joined(Strip(mw[m].text)) = mw[m].found.v
    /\ mw[m].deleted
    /\ mw[m].reply = "captcha_ok"

CaptchaDone(m) == mw[m].kind = "captcha" /\ mw[m].pc = "done"

(* C21: an event that carries a successful payment or comes from a group   *)
(* chat is passed to the handler by CaptchaMiddleware, and no challenge is *)
(* issued for it, even if its user has not passed the captcha              *)
C21_PaymentAndGroupBypass ==
    \A m \in Msgs :
        (CaptchaDone(m) /\ (mw[m].payment \/ mw[m].chat = "group")) =>
            (mw[m].passed /\ ~mw[m].sent)

(* C22: an event of a user whose stored profile is marked captcha_passed   *)
(* is passed to the handler by CaptchaMiddleware, and no challenge is      *)
(* issued for it                                                           *)
C22_PassedProfilePasses ==
    \A m \in Msgs :
        (CaptchaDone(m) /\ mw[m].user # NoUser /\ mw[m].captcha_passed) =>
            (mw[m].passed /\ ~mw[m].sent)

(* ---------------------------------------------------------------------- *)
(* Premium                                                                 *)
(* ---------------------------------------------------------------------- *)
RECURSIVE HasRow(_, _)
HasRow(rows, row) ==
    IF rows = <<>> THEN FALSE ELSE Head(rows) = row \/ HasRow(Tail(rows), row)

(* C23: when the success message of a payment is sent, the session has     *)
(* set the payer's is_premium with premium_until = payment time +          *)
(* PREMIUM_DAYS, has added a Payment row for the payment, and has          *)
(* committed                                                               *)
C23_PremiumAndPaymentRow ==
    \A p \in PayProcs :
        pay[p].answered =>
            /\ pay[p].executed /\ pay[p].committed
            /\ pay[p].seen.is_premium
            /\ pay[p].premium_until = pay[p].at + PREMIUM_DAYS * DaySeconds
            /\ pay[p].added
            /\ HasRow(pay[p].rows, Payment(pay[p].user, pay[p].amount))

(* ---------------------------------------------------------------------- *)
(* The downloaded file                                                     *)
(* ---------------------------------------------------------------------- *)
(* C24: after a download that was published, the handle is stored in the   *)
(* delivery cache under the bitrate the published file really has (128     *)
(* after a downgrade; for Yandex the bitrate of the variant chosen)        *)
C24_CachedUnderActualBitrate ==
    \A d \in DelProcs :
        dl[d].cached # 0 =>
            /\ dl[d].cached = dl[d].actual
            /\ FidKey(dl[d].cand.video_id, dl[d].actual) \in DOMAIN kv

(* C26: however a delivery ends, every file its fetches wrote into         *)
(* DOWNLOAD_DIR is gone when the handler returns                           *)
C26_TempFilesDeleted ==
    \A d \in DelProcs : dl[d].pc = "done" => dl[d].left = {}

(* ---------------------------------------------------------------------- *)
(* The query-result cache in the cascade                                   *)
(* ---------------------------------------------------------------------- *)
(* C25: at the YouTube and SoundCloud stages a provider call that has      *)
(* returned is followed by the write of the (query, provider) entry,       *)
(* whatever it returned, an empty list too; and a lookup that finds an     *)
(* entry, even an empty one, does not go on to the provider                *)
C25_CachedWhateverReturned ==
    /\ [](\A r \in Reqs : \A i \in 1..Len(req[r].calls) :
            (req[r].calls[i] \in CachedSources /\ req[r].outcome # "crashed") =>
                \/ req[r].pc = "qset:" \o req[r].calls[i]
                \/ /\ i < Len(req[r].calls)
                   /\ req[r].calls[i + 1] = "qset:" \o req[r].calls[i])
    /\ [][\A r \in Reqs, s \in CachedSources :
            (/\ req[r].pc = "qget:" \o s
             /\ req'[r].pc # req[r].pc
             /\ QCacheKey(req[r].query, s) \in DOMAIN kv)
                => req'[r].pc # "search:" \o s]_vars

(* ---------------------------------------------------------------------- *)
(* upsert_track                                                            *)
(* ---------------------------------------------------------------------- *)
(* the calls for a source_id that have returned or raised *)
UpEnded(source_id) == {u \in UpProcs : up[u].pc = "done" /\ up[u].source_id = source_id}

(* C27: upsert_track calls for one new source_id that run concurrently all *)
(* complete without error: the first writer creates the row, the others    *)
(* take the update path, and the counter is the number of the calls        *)
C27_ConcurrentUpsertsSafe ==
    \A u \in UpProcs :
        (up[u].pc = "done" /\ up[u].source_id = "yt9") =>
            /\ up[u].outcome \in {"created", "updated"}
            /\ "yt9" \in DOMAIN tracks
            /\ tracks["yt9"].downloads = Cardinality(UpEnded("yt9"))
            /\ Cardinality({v \in UpEnded("yt9") : up[v].outcome = "created"}) = 1

(* C28: an upsert_track call that found the row changes only the stored    *)
(* handle and the counter: title, artist, duration, source and channel     *)
(* stay, the counter grows by one, and without a handle in the call the    *)
(* stored handle stays as it was                                           *)
C28_UpdateTouchesHandleAndCounter ==
    \A u \in UpProcs :
        (up[u].pc = "done" /\ up[u].track # None) =>
            /\ up[u].outcome = "updated"
            /\ up[u].after.v.title = up[u].before.v.title
            /\ up[u].after.v.artist = up[u].before.v.artist
            /\ up[u].after.v.duration = up[u].before.v.duration
            /\ up[u].after.v.source = up[u].before.v.source
            /\ up[u].after.v.channel = up[u].before.v.channel
            /\ up[u].after.v.downloads = up[u].before.v.downloads + 1
            /\ up[u].after.v.file_id = IF up[u].file_id # "" THEN up[u].file_id
                                       ELSE up[u].before.v.file_id

Namespaces == {"qcache", "fid", "search", "cd", "limit"}

(* C30: the store keys of the query cache, the delivery cache, the session *)
(* store and the rate limiter are disjoint between the namespaces and one  *)
(* store key stands for one logical key: whatever has been accessed, every *)
(* store key was read and written for one logical key of one namespace     *)
C30_KeySpacesDisjoint ==
    \A k \in DOMAIN keyLog :
        /\ Cardinality(keyLog[k]) = 1
        /\ \A a \in keyLog[k] : a[1] \in Namespaces

(* every namespace has been used, two delivery-cache keys of which one    *)
(* ends like the other's track id included, and the entries are there      *)
C30_Witness ==
    /\ \A n \in Namespaces : \E k \in DOMAIN keyLog : \E a \in keyLog[k] : a[1] = n
    /\ {FidKey("yt1", 192), FidKey("yt1:192", 320)} \subseteq DOMAIN kv
    /\ SearchKey(ChartSessionId("vk")) \in DOMAIN kv
    /\ SearchKey("s1") \in DOMAIN kv
    /\ \A src \in CachedSources : QCacheKey(Q_Bo, src) \in DOMAIN kv
    /\ Cardinality(DOMAIN keyLog) = 8

C33_StartAllowed ==
    \A m \in Msgs :
        (CaptchaDone(m) /\ Unverified(m) /\ IsStartCommand(mw[m].text)) =>
            /\ mw[m].passed
            /\ mw[m].sent => mw[m].found = None

(* ---------------------------------------------------------------------- *)
(* Denied check_rate_limit calls                                           *)
(* ---------------------------------------------------------------------- *)
(* C34: a check_rate_limit call denied while the cooldown marker exists    *)
(* returns a hint of at least 1 and leaves the store as it was; a call     *)
(* denied with hint 0 found no marker, has counted past the tier's         *)
(* ceiling and sets no marker                                              *)
C34_DenialsLeaveMarkers ==
    [][(ticks' = ticks /\ ~rlRet'.allowed) =>
          LET user_id == rlRet'.user
          IN  IF CooldownKey(user_id) \in DOMAIN kv
              THEN rlRet'.hint >= 1 /\ kv' = kv
              ELSE /\ rlRet'.hint = 0
                   /\ kv'[LimitKey(user_id)].val > MaxLimit(rlRet'.prem)
                   /\ CooldownKey(user_id) \notin DOMAIN kv']_vars

(* a call was denied with hint 0: the counter is past the ceiling and no   *)
(* marker is set                                                           *)
C34_Witness ==
    /\ rlRet.called /\ ~rlRet.allowed /\ rlRet.hint = 0
    /\ CooldownKey(rlRet.user) \notin DOMAIN kv
    /\ LimitKey(rlRet.user) \in DOMAIN kv
    /\ kv[LimitKey(rlRet.user)].val = MaxLimit(rlRet.prem) + 2

(* ---------------------------------------------------------------------- *)
(* The size of what is sent                                                *)
(* ---------------------------------------------------------------------- *)
(* C35: a downloaded file that went to answer_audio is no larger than      *)
(* MAX_FILE_SIZE, whatever the candidate's source and the bitrate asked    *)
C35_NeverSendsOversized ==
    \A d \in DelProcs :
        (dl[d].via = "download" /\ dl[d].sent) => dl[d].size <= MAX_FILE_SIZE

(* ---------------------------------------------------------------------- *)
(* Concurrent deliveries and the download directory                        *)
(* ---------------------------------------------------------------------- *)
(* C36: while a delivery holds a file it downloaded and has not published  *)
(* yet, no step of another delivery deletes that file or downloads over it *)
C36_NoFilesystemInterference ==
    [][\A d, e \in DelProcs :
          (/\ d # e /\ dl'[e] # dl[e]
           /\ dl[d].via = "download" /\ dl[d].pc = "send_file"
           /\ dl[d].mp3_path \in disk) =>
              /\ dl[d].mp3_path \in disk'
              /\ ~(/\ Len(dl'[e].fetched) > Len(dl[e].fetched)
                    /\ ~dl'[e].fetched[Len(dl'[e].fetched)].raised
                    /\ Mp3Path(dl[e].cand.video_id) = dl[d].mp3_path)]_vars

(* ---------------------------------------------------------------------- *)
(* Premium granted by an administrator                                     *)
(* ---------------------------------------------------------------------- *)
(* C37: from an administrator's grant until an administrator's revocation  *)
(* the user's row is premium and every get_or_create_user call returns a   *)
(* premium user, whatever premium_until the row held at the grant          *)
C37_GrantStaysUntilRevoked ==
    \A u \in PayUsers : acct[u].granted => users[u].is_premium /\ acct[u].kept

(* C38: a delivery started for a user who was not premium at that moment   *)
(* looks up the delivery cache and downloads at 128 or 192, never at 320   *)
C38_NoTopBitrateWithoutPremium ==
    \A u \in PayUsers : \A s \in acct[u].picked :
        ~s.is_premium =>
            /\ dl[s.d].requested \in {128, 192}
            /\ \A i \in 1..Len(dl[s.d].fetched) : dl[s.d].fetched[i].bitrate \in {128, 192}

(* ---------------------------------------------------------------------- *)
(* The rate limit and the entry points of _do_search                       *)
(* ---------------------------------------------------------------------- *)
(* C39: the admission of a search depends on the requests of the user who  *)
(* asked only: a user with no request of its own before is not turned away *)
(* by the rate limit, whatever other users did, also for a chart track     *)
C39_RateLimitPerUser ==
    \A u \in PayUsers : \A s \in acct[u].pressed :
        s.fresh => req[s.r].outcome \notin {"cooldown", "exceeded"}

(* ---------------------------------------------------------------------- *)
(* The answers to a captcha challenge                                      *)
(* ---------------------------------------------------------------------- *)
(* C40: a wrong answer to a pending challenge leaves the store as it was:  *)
(* the challenge stays and the user stays unverified; the right answer     *)
(* sets the verified marker for VERIFIED_TTL and deletes the challenge;    *)
(* the marker goes only by running out, and a message that arrives while   *)
(* it is there is passed to the handler; no answer is passed               *)
C40_AnswersHandled ==
    [][\A m \in Msgs :
          /\ (mw[m].pc = "c_look" /\ mw'[m].reply = "captcha_fail") =>
                /\ kv' = kv
                /\ challenge_key(mw[m].user) \in DOMAIN kv'
                /\ mw'[m].pc = "done" /\ ~mw'[m].passed
          /\ (mw[m].pc = "c_look" /\ mw'[m].pc = "c_verify") =>
                /\ mw'[m].found # None
                /\ mw'[m].found.v = Joined(Strip(mw[m].text))
          /\ (mw[m].pc = "c_verify" /\ mw'[m].pc # "c_verify") =>
                /\ verified_key(mw[m].user) \in DOMAIN kv'
                /\ kv'[verified_key(mw[m].user)].ttl = VERIFIED_TTL
                /\ mw'[m].pc = "c_delete"
          /\ (mw[m].pc = "c_delete" /\ mw'[m].pc # "c_delete") =>
                /\ challenge_key(mw[m].user) \notin DOMAIN kv'
                /\ verified_key(mw[m].user) \in DOMAIN kv'
                /\ mw'[m].pc = "done" /\ mw'[m].reply = "captcha_ok" /\ ~mw'[m].passed
          /\ (mw[m].user # NoUser /\ verified_key(mw[m].user) \in DOMAIN kv
              /\ verified_key(mw[m].user) \notin DOMAIN kv') => ticks' # ticks
          /\ (MwEnd(m) /\ mw'[m] # mw[m] /\ mw'[m].user # NoUser
              /\ verified_key(mw'[m].user) \in DOMAIN kv) =>
                mw'[m].pc = "done" /\ mw'[m].passed]_vars

(* a right answer was handled, the challenge is gone, and a later message  *)
(* of the user, sent after CHALLENGE_TTL more seconds, was passed          *)
C40_Witness ==
    \E m \in Msgs, n \in Msgs :
        /\ m # n /\ mw[m].reply = "captcha_ok" /\ mw[m].pc = "done" /\ ~mw[m].passed
        /\ mw[n].user = mw[m].user /\ mw[n].pc = "done"
        /\ mw[n].verified /\ mw[n].passed
        /\ challenge_key(mw[m].user) \notin DOMAIN kv
        /\ ticks = 1

====
